---- MODULE Spec2Model ----
(***************************************************************************)
(* A model of the Grapheme expression parser: the token scanner, the       *)
(* bracket balancer, the implicit-multiplication inserter and the          *)
(* tree-building passes of parseString.                                    *)
(*                                                                         *)
(* Strings are sequences of one-character strings; JavaScript indices are  *)
(* kept 0-based as in the source (charAt converts).  A token or node is a  *)
(* record of one fixed shape; a field the JavaScript object does not carry *)
(* holds Undef (numbers), "undefined" (opening) or an empty sequence.      *)
(***************************************************************************)
EXTENDS Integers, Sequences, FiniteSets, TLC

VARIABLES
    string,                  \* the source text handed to parseString
    implicitMultiplication,  \* options.implicitMultiplication
    maxExpressionDepth,      \* options.maxExpressionDepth
    pc,                      \* the step that runs next
    tokens,                  \* the token list
    i,                       \* checkParensBalanced: loop index (0-based)
    stack,                   \* checkParensBalanced: the stack of (id, kind)
    id,                      \* checkParensBalanced: the pair-id counter
    rootNode,                \* the tree parseString works on
    err,                     \* the exception thrown, if any
    currentIndex,            \* simpleTokenizer: where the next token starts
    expectingTypename,       \* simpleTokenizer: a typename must come next
    objects,                 \* applyToNodesRecursively: the objects reachable from topNode
    options,                 \* applyToNodesRecursively: childrenFirst, rtl, depth, checkCycles
    nodeStack,               \* applyToNodesRecursively: the nodes being iterated
    nodeChildIndexStack,     \* applyToNodesRecursively: where in each node's children
    calls,                   \* applyToNodesRecursively: the calls of func made so far
    line,                    \* generateErrorMessage: the line shown
    errorIndex,              \* generateErrorMessage: the index of the error in the line
    excerpt,                 \* generateErrorMessage: the part of the line shown
    newIndex                 \* generateErrorMessage: the column of the caret

\* the state of the scanner loop, of a traversal and of the error formatter
scanVars == <<currentIndex, expectingTypename>>
walkVars == <<objects, options, nodeStack, nodeChildIndexStack, calls>>
reportVars == <<line, errorIndex, excerpt, newIndex>>

\* the state of parseString that a traversal or the formatter run on its own
\* leaves alone
parseVars ==
    <<string, implicitMultiplication, maxExpressionDepth, tokens, i, stack, id, rootNode>>

\* what the steps of parseString after the scanner leave alone
aside == <<maxExpressionDepth, scanVars, walkVars, reportVars>>

vars == <<string, implicitMultiplication, pc, tokens, i, stack, id, rootNode, err, aside>>

-----------------------------------------------------------------------------
(* Values *)

\* JavaScript's undefined, for a numeric field
Undef == -9

\* JavaScript's NaN
NaN == -8

\* JavaScript's Infinity: larger than every length, depth and index met here
Infinity == 1000000

\* the options of a traversal that is not running
NoOptions == [childrenFirst |-> FALSE, rtl |-> FALSE, depth |-> Infinity, checkCycles |-> FALSE]

\* a + b in JavaScript, where a may be undefined or NaN
plus(a, b) == IF a \in {Undef, NaN} THEN NaN ELSE a + b

\* the template nesting depth allowed by default
DEFAULT_MAX_TEMPLATE_DEPTH == 16

NoError == [type |-> "none", index |-> Undef, message |-> "", note |-> Undef]

\* errorInString(string, index, message, help): a ParserError; note is the
\* index the help message points at (Undef when there is none)
errorInString(index, message, note) ==
    [type |-> "ParserError", index |-> index, message |-> message, note |-> note]

\* an exception that is not a ParserError (TypeError, ReferenceError)
jsError(type, message) ==
    [type |-> type, index |-> Undef, message |-> message, note |-> Undef]

\* The one record shape of tokens and nodes.  txt holds name / value / op /
\* prop / contents / typename, whichever the kind carries.
Blank ==
    [type |-> "undefined", index |-> Undef, endIndex |-> Undef, txt |-> <<>>,
     paren |-> "", pID |-> Undef, opening |-> "undefined", implicit |-> FALSE,
     src |-> "", parenType |-> "", hasChildren |-> FALSE, children |-> <<>>,
     parenInfo |-> <<>>, signature |-> <<>>, arrowIndex |-> Undef, tid |-> 0]

\* an array element that does not exist (arr[-1], arr[arr.length])
Nil == Blank

Token(type, index, txt) == [Blank EXCEPT !.type = type, !.index = index, !.txt = txt]

-----------------------------------------------------------------------------
(* Character classes *)

UpperCase == {"A","B","C","D","E","F","G","H","I","J","K","L","M",
              "N","O","P","Q","R","S","T","U","V","W","X","Y","Z"}
LowerCase == {"a","b","c","d","e","f","g","h","i","j","k","l","m",
              "n","o","p","q","r","s","t","u","v","w","x","y","z"}
Digits == {"0","1","2","3","4","5","6","7","8","9"}

\* string.charAt(k) / charCodeAt(k): "" stands for "no character there"
charAt(s, k) == IF k >= 0 /\ k < Len(s) THEN s[k + 1] ELSE ""

\* string.slice(a, b) for 0 <= a <= b
slice(s, a, b) == SubSeq(s, a + 1, IF b > Len(s) THEN Len(s) ELSE b)

\* string.startsWith(op, k)
startsWith(s, op, k) ==
    k + Len(op) <= Len(s) /\ SubSeq(s, k + 1, k + Len(op)) = op

isValidStartingCharacter(c) == c \in UpperCase \cup LowerCase \cup {"_"}

isValidContinuationCharacter(c) == isValidStartingCharacter(c) \/ c \in Digits

\* the tab, line feed, form feed, carriage return and the non-ASCII spaces
\* are written by name
isWhitespace(c) == c \in {" ", "\t", "\n", "\f", "\r", "NBSP", "LS", "PS"}

-----------------------------------------------------------------------------
(* Token finders: each returns the index just past the token, or -1 *)

RECURSIVE simpleVariableEnd(_, _)
simpleVariableEnd(s, k) ==
    IF k < Len(s) /\ isValidContinuationCharacter(charAt(s, k))
    THEN simpleVariableEnd(s, k + 1)
    ELSE k

findSimpleVariableToken(s, startIndex, firstChar) ==
    IF ~isValidStartingCharacter(firstChar) THEN -1
    ELSE simpleVariableEnd(s, startIndex + 1)

\* the for loop of findVariableToken; the value is i when the loop is left
RECURSIVE findVariableLoop(_, _, _, _, _)
findVariableLoop(s, startIndex, k, colonCount, lastVarEnd) ==
    IF k >= Len(s) THEN [i |-> k, colonCount |-> colonCount, lastVarEnd |-> lastVarEnd]
    ELSE LET c == charAt(s, k) IN
         IF c = ":" THEN
            IF colonCount = 2
            THEN [i |-> lastVarEnd, colonCount |-> colonCount, lastVarEnd |-> lastVarEnd]
            ELSE findVariableLoop(s, startIndex, k + 1, colonCount + 1,
                                  IF colonCount = 0 THEN k ELSE lastVarEnd)
         ELSE IF k = startIndex \/ colonCount = 2 THEN
            LET newI == findSimpleVariableToken(s, k, c) IN
            IF newI = -1
            THEN [i |-> lastVarEnd, colonCount |-> colonCount, lastVarEnd |-> lastVarEnd]
            ELSE findVariableLoop(s, startIndex, newI, colonCount, newI)
         ELSE [i |-> k, colonCount |-> colonCount, lastVarEnd |-> lastVarEnd]

findVariableToken(s, startIndex0, firstChar) ==
    LET jump == firstChar = ":" /\ charAt(s, startIndex0 + 1) = ":"
        startIndex == IF jump THEN startIndex0 + 2 ELSE startIndex0
        out == findVariableLoop(s, startIndex, startIndex, IF jump THEN 2 ELSE 0, startIndex)
        k == IF out.colonCount \in {1, 2} THEN out.lastVarEnd ELSE out.i
    IN IF k = startIndex THEN -1 ELSE k

RECURSIVE findStringLoop(_, _, _, _)
findStringLoop(s, k, firstChar, currentlyEscaping) ==
    IF k >= Len(s) THEN -1
    ELSE LET c == charAt(s, k) IN
         IF c = firstChar /\ ~currentlyEscaping THEN k + 1
         ELSE findStringLoop(s, k + 1, firstChar,
                             IF c = "\\" THEN ~currentlyEscaping ELSE FALSE)

findStringToken(s, startIndex, firstChar) ==
    IF firstChar \notin {"\"", "'"} THEN -1
    ELSE findStringLoop(s, startIndex + 1, firstChar, FALSE)

\* the for loop of findNumericToken; st holds the loop's flags
RECURSIVE findNumericLoop(_, _, _, _)
findNumericLoop(s, startIndex, k, st) ==
    IF k >= Len(s) THEN [i |-> k, numericFound |-> st.numericFound]
    ELSE LET c == charAt(s, k)
             stop == [i |-> k, numericFound |-> st.numericFound]
         IN
         IF c \in {"e", "E"} THEN
            IF st.exponentialFound \/ k = startIndex THEN stop
            ELSE findNumericLoop(s, startIndex, k + 1,
                    [st EXCEPT !.exponentialFound = TRUE, !.exponentialIndex = k])
         ELSE IF c = "." THEN
            IF st.decimalPointFound THEN stop
            ELSE IF st.exponentialFound
                 THEN [i |-> st.exponentialIndex, numericFound |-> st.numericFound]
                 ELSE findNumericLoop(s, startIndex, k + 1,
                         [st EXCEPT !.decimalPointFound = TRUE])
         ELSE IF c \in Digits THEN
            findNumericLoop(s, startIndex, k + 1, [st EXCEPT !.numericFound = TRUE])
         ELSE IF c \in {"-", "+"} THEN
            IF ~st.exponentialFound \/ k # st.exponentialIndex + 1 THEN stop
            ELSE findNumericLoop(s, startIndex, k + 1, st)
         ELSE stop

findNumericToken(s, startIndex) ==
    LET out == findNumericLoop(s, startIndex, startIndex,
                   [exponentialFound |-> FALSE, decimalPointFound |-> FALSE,
                    numericFound |-> FALSE, exponentialIndex |-> 0])
    IN IF out.i = startIndex \/ ~out.numericFound THEN -1 ELSE out.i

\* Object.keys(simpleOperators) sorted by decreasing length (a stable sort)
operatorOrder ==
    << <<"!", "!">>, <<"!", "=">>, <<"=", "=">>, <<"<", "=">>, <<">", "=">>,
       <<"+">>, <<"-">>, <<"*">>, <<"/">>, <<"!">>, <<"^">>, <<"=">>, <<"<">>, <<">">> >>

operatorsFollowedByWhitespace == << <<"a", "n", "d">>, <<"o", "r">> >>

\* simpleOperators[op]: the operator a lexeme stands for
simpleOperators(op) == IF op = <<"=">> THEN <<"=", "=">> ELSE op

RECURSIVE firstMatch(_, _, _, _)
firstMatch(s, startIndex, ops, k) ==
    IF k > Len(ops) THEN -1
    ELSE IF startsWith(s, ops[k], startIndex) THEN startIndex + Len(ops[k])
    ELSE firstMatch(s, startIndex, ops, k + 1)

RECURSIVE firstWordMatch(_, _, _, _)
firstWordMatch(s, startIndex, ops, k) ==
    IF k > Len(ops) THEN -1
    ELSE IF startsWith(s, ops[k], startIndex)
            /\ isWhitespace(charAt(s, startIndex + Len(ops[k]) + 1))
         THEN startIndex + Len(ops[k])
    ELSE firstWordMatch(s, startIndex, ops, k + 1)

findOperatorToken(s, startIndex) ==
    LET simple == firstMatch(s, startIndex, operatorOrder, 1) IN
    IF simple # -1 THEN simple
    ELSE firstWordMatch(s, startIndex, operatorsFollowedByWhitespace, 1)

findPropertyAccessToken(s, startIndex, c) ==
    IF c # "." THEN -1
    ELSE findSimpleVariableToken(s, startIndex + 1, charAt(s, startIndex + 1))

\* findArrowFunctionToken, handing back the index of the arrow, not its end
findArrowFunctionTokenStart(s, startIndex, c) ==
    IF c # "-" THEN -1
    ELSE IF charAt(s, startIndex + 1) # ">" THEN -1
    ELSE startIndex

findArrowFunctionToken(s, startIndex, c) ==
    IF c # "-" THEN -1
    ELSE IF charAt(s, startIndex + 1) # ">" THEN -1
    ELSE startIndex + 2

-----------------------------------------------------------------------------
(* Template specializations  name::<T1, T2, ...> *)

\* what a function that may throw hands back
Return(value) == [kind |-> "return", value |-> value, err |-> NoError]
Throw(e) == [kind |-> "throw", value |-> -1, err |-> e]

RECURSIVE findTemplateSpecialization(_, _, _, _, _)
RECURSIVE templateLoop(_, _, _, _, _, _)

\* the main loop of findTemplateSpecialization, at index k
templateLoop(s, k, correspondingIndex, expectingType, maxTemplateDepth, currentDepth) ==
    IF k >= Len(s) THEN
        IF correspondingIndex # -1
        THEN Throw(errorInString(Len(s), "Unbalanced angle brackets in template specialization",
                                 correspondingIndex))
        ELSE Return(k)
    ELSE LET c == charAt(s, k) IN
    CASE c = "<" ->
            IF expectingType
            THEN Throw(errorInString(k, "Expected type, found opening angle bracket", Undef))
            ELSE IF currentDepth > maxTemplateDepth
            THEN Throw(errorInString(k, "Max template depth exceeded", Undef))
            ELSE templateLoop(s, k + 1, k, TRUE, maxTemplateDepth, currentDepth)
      [] c = ">" ->
            IF expectingType
            THEN Throw(errorInString(k, "Expected type, found closing angle bracket", Undef))
            ELSE IF correspondingIndex # -1
            \* the loop reads stack.length, and no stack is declared in that scope
            THEN Throw(jsError("ReferenceError", "stack is not defined"))
            ELSE Throw(errorInString(k, "Unbalanced angle brackets in template specialization", Undef))
      [] c = "," ->
            IF expectingType
            THEN Throw(errorInString(k, "Expected type, found comma", Undef))
            ELSE templateLoop(s, k + 1, correspondingIndex, TRUE, maxTemplateDepth, currentDepth)
      [] OTHER ->
            IF isWhitespace(c)
            THEN templateLoop(s, k + 1, correspondingIndex, expectingType, maxTemplateDepth, currentDepth)
            ELSE IF ~expectingType
            THEN Throw(errorInString(k, "Unexpected token", Undef))
            ELSE LET typeToken == findSimpleVariableToken(s, k, c) IN
                 IF typeToken = -1 THEN Throw(errorInString(k, "Expected type", Undef))
                 ELSE IF charAt(s, typeToken) = "<"
                 THEN Throw(errorInString(typeToken, "Unexpected token", Undef))
                 ELSE LET specialization ==
                              findTemplateSpecialization(s, typeToken, charAt(s, typeToken),
                                                         maxTemplateDepth, currentDepth + 1)
                      IN IF specialization.kind = "throw" THEN specialization
                         ELSE templateLoop(s,
                                  IF specialization.value = -1 THEN typeToken
                                  ELSE specialization.value,
                                  correspondingIndex, FALSE, maxTemplateDepth, currentDepth)

findTemplateSpecialization(s, startIndex, c, maxTemplateDepth, currentDepth) ==
    IF c # ":" THEN Return(-1)
    ELSE IF charAt(s, startIndex + 1) # ":" THEN
        IF charAt(s, startIndex + 1) = "<"
        THEN Throw(errorInString(startIndex + 1, "Unexpected <", startIndex))
        ELSE Return(-1)
    ELSE IF charAt(s, startIndex + 2) # "<"
    THEN Throw(errorInString(startIndex + 2, "Expected < for template specialization", Undef))
    ELSE templateLoop(s, startIndex + 2, -1, FALSE, maxTemplateDepth, currentDepth)

-----------------------------------------------------------------------------
(* The scanner *)

RECURSIVE skipWhitespace(_, _)
skipWhitespace(s, k) ==
    IF k < Len(s) /\ isWhitespace(charAt(s, k)) THEN skipWhitespace(s, k + 1) ELSE k

\* the last token's index, for the note of checkTypenameExpected
lastIndex(toks) == IF Len(toks) = 0 THEN Undef ELSE toks[Len(toks)].index

\* One turn of the main token loop of simpleTokenizer, entered at index from
\* with a typename expected or not: how the turn ends (break, continue or
\* throw), and the tokens, currentIndex and expectingTypename it leaves.
simpleTokenizerTurn(s, maxTemplateDepth, from, toks, expecting) ==
    LET start == skipWhitespace(s, from)
        c == charAt(s, start)
        left(kind, e) ==
            [kind |-> kind, tokens |-> toks, currentIndex |-> start,
             expectingTypename |-> expecting, err |-> e]
        stop(e) == left("throw", e)
        next(tok, tokenIndex, expected) ==
            [kind |-> "continue", tokens |-> Append(toks, tok), currentIndex |-> tokenIndex,
             expectingTypename |-> expected, err |-> NoError]
        typenameExpected ==
            errorInString(start, "Expected typename", lastIndex(toks))
        variableEnd == findVariableToken(s, start, c)
        stringEnd == findStringToken(s, start, c)
        numericEnd == findNumericToken(s, start)
        propertyEnd == findPropertyAccessToken(s, start, c)
        arrowEnd == findArrowFunctionToken(s, start, c)
        operatorEnd == findOperatorToken(s, start)
    IN
    IF start >= Len(s) THEN left("break", NoError)
    ELSE IF c \in {"(", ")", "[", "]", "|"} THEN
        IF expecting THEN stop(typenameExpected)
        ELSE next([Token("paren", start, <<>>) EXCEPT !.paren = c, !.pID = -1],
                  start + 1, expecting)
    ELSE IF c = "," THEN
        IF expecting THEN stop(typenameExpected)
        ELSE next(Token("comma", start, <<>>), start + 1, expecting)
    ELSE IF variableEnd # -1 THEN
        LET template == findTemplateSpecialization(s, variableEnd, charAt(s, variableEnd),
                                                   maxTemplateDepth, 0)
            tokenIndex == IF template.value # -1 THEN template.value ELSE variableEnd
            name == slice(s, start, tokenIndex)
        IN
        IF template.kind = "throw" THEN stop(template.err)
        ELSE IF charAt(s, tokenIndex) = "(" THEN
            IF expecting
            THEN stop(errorInString(tokenIndex, "Expected typename, found function", template.value))
            ELSE next(Token("function_token", start, name), tokenIndex, expecting)
        ELSE IF template.value # -1 THEN
            IF ~expecting
            THEN stop(errorInString(start, "Unexpected typename", Undef))
            ELSE next(Token("typename", start, name), tokenIndex, FALSE)
        ELSE IF expecting
        THEN next(Token("typename", start, name), tokenIndex, FALSE)
        ELSE next(Token("variable", start, name), tokenIndex, FALSE)
    ELSE IF expecting THEN stop(typenameExpected)
    ELSE IF c = ":" THEN next(Token("colon", start, <<>>), start + 1, TRUE)
    ELSE IF stringEnd # -1 THEN
        next([Token("string", start, slice(s, start + 1, stringEnd - 1))
                 EXCEPT !.src = "string"],
             stringEnd, FALSE)
    ELSE IF numericEnd # -1 THEN
        next(Token("number", start, slice(s, start, numericEnd)), numericEnd, FALSE)
    ELSE IF propertyEnd # -1 THEN
        next(Token("property_access", start, slice(s, start + 1, propertyEnd)),
             propertyEnd, FALSE)
    ELSE IF arrowEnd # -1 THEN
        next(Token("arrow_function_token", start, <<>>), arrowEnd, FALSE)
    ELSE IF operatorEnd # -1 THEN
        next(Token("operator_token", start,
                   simpleOperators(slice(s, start, operatorEnd))),
             operatorEnd, FALSE)
    ELSE stop(errorInString(start, "Unrecognized token", Undef))

\* The main token loop of simpleTokenizer from index from on: the tokens, and
\* the exception that ended the loop if one did.
RECURSIVE simpleTokenizerLoop(_, _, _, _, _)
simpleTokenizerLoop(s, maxTemplateDepth, from, toks, expecting) ==
    CHOOSE out \in
        {IF t.kind = "continue"
         THEN simpleTokenizerLoop(s, maxTemplateDepth, t.currentIndex, t.tokens,
                                  t.expectingTypename)
         ELSE [tokens |-> t.tokens, err |-> t.err] :
            t \in {simpleTokenizerTurn(s, maxTemplateDepth, from, toks, expecting)}} : TRUE

simpleTokenizer(s, maxTemplateDepth) ==
    simpleTokenizerLoop(s, maxTemplateDepth, 0, <<>>, FALSE)

-----------------------------------------------------------------------------
(* checkParensBalanced *)

\* the kinds the balancer pushes:  1 <-> '(',  2 <-> '[',  3 <-> '|'
kindOf(paren) == CASE paren = "(" -> 1 [] paren = "[" -> 2 [] paren = "|" -> 3 [] OTHER -> 0

\* the stack is flat, as in the source: push(id, kind) appends two numbers
push(stk, pairId, kind) == stk \o <<pairId, kind>>

\* peek(): the last number of the stack, the kind of the innermost open paren
peek(stk) == IF Len(stk) = 0 THEN Undef ELSE stk[Len(stk)]

\* stack.pop() twice: the kind first, then the pair id below it
poppedKind(stk) == IF Len(stk) = 0 THEN Undef ELSE stk[Len(stk)]
poppedId(stk) == IF Len(stk) < 2 THEN Undef ELSE stk[Len(stk) - 1]
popped(stk) == IF Len(stk) < 2 THEN <<>> ELSE SubSeq(stk, 1, Len(stk) - 2)

\* findParenWithId(id): the first token whose pID is id, Nil if there is none
findParenWithId(toks, pairId) ==
    LET found == {k \in 1..Len(toks) : toks[k].pID = pairId} IN
    IF found = {} THEN Nil
    ELSE toks[CHOOSE k \in found : \A m \in found : k <= m]

unbalancedParenError(toks, token, prevId) ==
    LET prevParen == findParenWithId(toks, prevId) IN
    errorInString(token.index, "Unbalanced parentheses",
                  IF prevParen = Nil THEN Undef ELSE prevParen.index)

\* whether the bar at position k (0-based) of toks is an opening bar, given
\* the kind on top of the stack
pushBarOnOtherTop(toks, k, last) == last # 3

pushBar(toks, k, last) ==
    IF last = 3
    THEN LET prevToken == toks[k] IN   \* tokens[k - 1], 0-based
         \/ (prevToken.type = "paren" /\ prevToken.opening = "true" /\ prevToken.paren = "|")
         \/ prevToken.type = "operator_token"
    ELSE TRUE

\* whether a ')' or ']' of the given kind is rejected, given the popped kind
closerRejectedOnKind(last, kind) == last # kind /\ last # Undef

closerRejected(last, kind) == last # kind

\* the pair id a closer takes: the second number popped
closerIdFirstPop(stk) == poppedKind(stk)

closerId(stk) == poppedId(stk)

\* the id read at the end of input when the stack is not empty
unclosedTokenIdBottom(stk) == IF Len(stk) = 0 THEN Undef ELSE stk[1]

unclosedTokenId(stk) == poppedId(stk)

-----------------------------------------------------------------------------
(* expressionTokenizer: the implicit-multiplication inserter *)

truthy(opening) == opening = "true"

isOpenParen(token) ==
    CASE token.paren = "(" -> TRUE
      [] token.paren = "|" -> truthy(token.opening)
      [] OTHER -> FALSE

isCloseParen(token) ==
    CASE token.paren \in {")", "]"} -> TRUE
      [] token.paren = "|" -> ~truthy(token.opening)
      [] OTHER -> FALSE

\* the test with '[' taken for an opening paren as well
implicitMultBeforeBracket(token1, token2) ==
    /\ \/ token1.type \in {"number", "variable"}
       \/ (token1.type = "paren" /\ isCloseParen(token1))
    /\ \/ (token2.type = "paren" /\ (isOpenParen(token2) \/ token2.paren = "["))
       \/ token2.type \in {"number", "variable", "function_token"}

\* whether a synthetic * goes between token1 and token2
implicitMult(token1, token2) ==
    /\ \/ token1.type \in {"number", "variable"}
       \/ (token1.type = "paren" /\ isCloseParen(token1))
    /\ \/ (token2.type = "paren" /\ isOpenParen(token2))
       \/ token2.type \in {"number", "variable", "function_token"}

\* the synthetic token with op '^'
implicitTokenPower(token2) ==
    [Token("operator_token", token2.index - 1, <<"^">>) EXCEPT !.implicit = TRUE]

implicitToken(token2) ==
    [Token("operator_token", token2.index - 1, <<"*">>) EXCEPT !.implicit = TRUE]

\* the for loop of expressionTokenizer, from i = k (0-based) on
RECURSIVE insertLoop(_, _, _)
insertLoop(toks, k, newTokens) ==
    IF k >= Len(toks) THEN newTokens
    ELSE LET token1 == toks[k]
             token2 == toks[k + 1]
         IN insertLoop(toks, k + 1,
                IF implicitMult(token1, token2)
                THEN newTokens \o <<token1, implicitToken(token2)>>
                ELSE Append(newTokens, token1))

\* the loop, then newTokens.push(token2): token2 is tokens[0] when the loop
\* never ran, and that is undefined for an empty token list
insertImplicitMultiplication(toks) ==
    Append(insertLoop(toks, 1, <<>>), IF Len(toks) = 0 THEN Nil ELSE toks[Len(toks)])

\* The model numbers the tokens of the final list, so that a node that is a
\* rewritten token can be told from a node made afresh (object identity).
numbered(toks) ==
    [k \in 1..Len(toks) |-> IF toks[k] = Nil THEN Nil ELSE [toks[k] EXCEPT !.tid = k]]

-----------------------------------------------------------------------------
(* parseString: helpers *)

\* what a pass hands back: the node (or array) as it stands, and the
\* exception that stopped the pass if one did
Result(value) == [value |-> value, err |-> NoError]
Thrown(value, e) == [value |-> value, err |-> e]
ok(r) == r.err.type = "none"

\* F applied to what r handed back, unless r is an exception
Bind(r, F(_)) == IF ok(r) THEN F(r.value) ELSE r

\* arr[k] for a 0-based k: undefined outside the array
at(arr, k) == IF k >= 0 /\ k < Len(arr) THEN arr[k + 1] ELSE Nil

min(a, b) == IF a < b THEN a ELSE b
max(a, b) == IF a > b THEN a ELSE b

\* arr.splice(start, deleteCount, ...items), the array afterwards
splice(arr, start, deleteCount, items) ==
    LET from == IF start < 0 THEN max(Len(arr) + start, 0) ELSE min(start, Len(arr))
        count == max(0, min(deleteCount, Len(arr) - from))
    IN SubSeq(arr, 1, from) \o items \o SubSeq(arr, from + count + 1, Len(arr))

couldBePrefixOp(op) == op \in {<<"-">>, <<"+">>}

couldBePostfixOp(op) == op \in {<<"!">>, <<"!", "!">>}

\* getStartingIndex: node.index ?? (children ? children[0].index : NaN)
getStartingIndex(node) ==
    IF node.index # Undef THEN node.index
    ELSE IF node.hasChildren THEN at(node.children, 0).index
    ELSE NaN

\* whether getEndingIndex(node) throws (an empty child list to descend into,
\* or a kind it has no case for)
RECURSIVE endingIndexThrows(_)
endingIndexThrows(node) ==
    IF node = Nil THEN TRUE
    ELSE IF node.endIndex # Undef THEN FALSE
    ELSE IF node.hasChildren
    THEN Len(node.children) = 0 \/ endingIndexThrows(node.children[Len(node.children)])
    ELSE \/ node.type \notin {"comma", "paren", "colon", "function_token", "variable", "number",
                              "operator", "operator_token", "property_access", "string",
                              "typename", "arrow_function_token"}
         \/ (node.type = "string" /\ node.src \notin {"string", "property_access", "operator"})

\* getEndingIndex(node), where it does not throw
RECURSIVE getEndingIndex(_)
getEndingIndex(node) ==
    IF node.endIndex # Undef THEN node.endIndex
    ELSE IF node.hasChildren THEN getEndingIndex(node.children[Len(node.children)])
    ELSE CASE node.type \in {"comma", "paren", "colon"} -> node.index
           [] node.type \in {"function_token", "variable", "number", "operator",
                             "operator_token", "typename"} ->
                plus(node.index, Len(node.txt) - 1)
           [] node.type = "property_access" -> plus(node.index, Len(node.txt))
           [] node.type = "string" /\ node.src = "string" -> plus(node.index, Len(node.txt) + 1)
           [] node.type = "string" /\ node.src # "string" -> plus(node.index, Len(node.txt) - 1)
           [] node.type = "arrow_function_token" -> plus(node.index, 1)

checkIfValidOperand(node) ==
    node.type \notin {"comma", "paren", "function_token", "operator_token",
                      "property_access", "arrow_function_token", "colon"}

\* a node with a child array
Node(type, index, endIndex, children) ==
    [Blank EXCEPT !.type = type, !.index = index, !.endIndex = endIndex,
                  !.hasChildren = TRUE, !.children = children]

someChild(node, type) == \E k \in 1..Len(node.children) : node.children[k].type = type

\* splitByFunction(arr, node => node.type === "comma"), from element k on
RECURSIVE splitByComma(_, _, _, _)
splitByComma(arr, k, result, curr) ==
    IF k > Len(arr)
    THEN IF Len(curr) # 0 THEN Append(result, curr) ELSE result
    ELSE IF arr[k].type = "comma"
    THEN splitByComma(arr, k + 1, IF Len(curr) # 0 THEN Append(result, curr) ELSE result, <<>>)
    ELSE splitByComma(arr, k + 1, result, Append(curr, arr[k]))

\* the arguments taken from the last one to the first
processFunctionArgumentsReversed(arr) ==
    LET groups == splitByComma(arr, 1, <<>>, <<>>) IN
    [g \in 1..Len(groups) |->
        LET subnode == groups[Len(groups) + 1 - g] IN
        IF Len(subnode) = 1 THEN subnode[1]
        ELSE Node("node", subnode[1].index, getEndingIndex(subnode[Len(subnode)]), subnode)]

processFunctionArguments(arr) ==
    LET groups == splitByComma(arr, 1, <<>>, <<>>) IN
    [g \in 1..Len(groups) |->
        LET subnode == groups[g] IN
        IF Len(subnode) = 1 THEN subnode[1]
        ELSE Node("node", subnode[1].index, getEndingIndex(subnode[Len(subnode)]), subnode)]

\* the passes with signs and powers taken from left to right
firstOperatorPassLeftToRight ==
    << [unaries |-> {}, binaries |-> {}, postfixes |-> {<<"!">>, <<"!", "!">>}, rtl |-> FALSE],
       [unaries |-> {<<"+">>, <<"-">>}, binaries |-> {<<"^">>}, postfixes |-> {}, rtl |-> FALSE],
       [unaries |-> {}, binaries |-> {<<"*">>, <<"/">>}, postfixes |-> {}, rtl |-> FALSE],
       [unaries |-> {}, binaries |-> {<<"+">>, <<"-">>}, postfixes |-> {}, rtl |-> FALSE],
       [unaries |-> {}, binaries |-> {<<"a", "n", "d">>, <<"o", "r">>}, postfixes |-> {},
        rtl |-> FALSE] >>

\* the operator passes: the operators of each class, and the direction
firstOperatorPass ==
    << [unaries |-> {}, binaries |-> {}, postfixes |-> {<<"!">>, <<"!", "!">>}, rtl |-> FALSE],
       [unaries |-> {<<"+">>, <<"-">>}, binaries |-> {<<"^">>}, postfixes |-> {}, rtl |-> TRUE],
       [unaries |-> {}, binaries |-> {<<"*">>, <<"/">>}, postfixes |-> {}, rtl |-> FALSE],
       [unaries |-> {}, binaries |-> {<<"+">>, <<"-">>}, postfixes |-> {}, rtl |-> FALSE],
       [unaries |-> {}, binaries |-> {<<"a", "n", "d">>, <<"o", "r">>}, postfixes |-> {},
        rtl |-> FALSE] >>

secondOperatorPass ==
    << [unaries |-> {},
        binaries |-> {<<"=", "=">>, <<"!", "=">>, <<"<">>, <<">">>, <<"<", "=">>, <<">", "=">>},
        postfixes |-> {}, rtl |-> FALSE] >>

-----------------------------------------------------------------------------
(* triplewise and the callbacks handed to it *)

\* what a triplewise callback does: nothing, replaceWith(subarr), or throw
NoAction == [kind |-> "none", subarr |-> <<>>, err |-> NoError]
ReplaceWith(subarr) == [kind |-> "replace", subarr |-> subarr, err |-> NoError]
ThrowAction(e) == [kind |-> "throw", subarr |-> <<>>, err |-> e]

\* replaceWith(subarr) at middle index k (0-based): the array afterwards
replaceWith(arr, k, subarr) ==
    IF k = 0 THEN splice(arr, 0, 2, Tail(subarr))
    ELSE IF k = Len(arr) - 1
    THEN splice(arr, Len(arr) - 2, 3, SubSeq(subarr, 1, min(2, Len(subarr))))
    ELSE splice(arr, k - 1, 3, subarr)

\* checkOperandValid(operator, other, type): the exception thrown, or NoError
checkOperandValid(operator, other) ==
    IF other = Nil THEN jsError("TypeError", "Cannot read properties of undefined")
    ELSE IF ~checkIfValidOperand(other)
    THEN errorInString(operator.index, "Can't process operator on node", other.index)
    ELSE NoError

\* the token e2 rewritten in place into an operator node
collapsed(e2, children) ==
    [e2 EXCEPT !.type = "operator", !.hasChildren = TRUE, !.children = children]

isOperator(node) == node # Nil /\ node.type \in {"operator_token", "operator"}

\* the callback of doIt for one pass
operatorCallback(pass, e1, e2, e3) ==
    IF e2.type # "operator_token" THEN NoAction
    ELSE IF e2.txt \in pass.binaries THEN
        IF checkOperandValid(e2, e1).type # "none" THEN ThrowAction(checkOperandValid(e2, e1))
        ELSE IF checkOperandValid(e2, e3).type # "none" THEN ThrowAction(checkOperandValid(e2, e3))
        ELSE ReplaceWith(<<collapsed(e2, <<e1, e3>>)>>)
    ELSE IF e2.txt \in pass.unaries THEN
        IF e1 = Nil \/ isOperator(e1) THEN
            IF checkOperandValid(e2, e3).type # "none" THEN ThrowAction(checkOperandValid(e2, e3))
            ELSE ReplaceWith(<<e1, collapsed(e2, <<e3>>)>>)
        ELSE NoAction
    ELSE IF e2.txt \in pass.postfixes THEN
        IF e3 = Nil \/ isOperator(e3) THEN
            IF checkOperandValid(e2, e1).type # "none" THEN ThrowAction(checkOperandValid(e2, e1))
            ELSE ReplaceWith(IF e3 # Nil THEN <<collapsed(e2, <<e1>>), e3>>
                             ELSE <<collapsed(e2, <<e1>>)>>)
        ELSE NoAction
    ELSE NoAction

\* the callback of Step 7
typeAnnotationCallback(e1, e2, e3) ==
    IF e2.type # "colon" THEN NoAction
    ELSE IF e1 = Nil THEN ThrowAction(errorInString(e2.index, "Unexpected colon", Undef))
    ELSE IF e3 = Nil
    THEN ThrowAction(errorInString(e2.index, "Unexpected colon: missing typename", e2.index + 1))
    ELSE IF e1.type \notin {"variable", "node"}
    THEN ThrowAction(errorInString(e1.index, "Expected variable before colon", Undef))
    ELSE IF e3.type # "typename"
    THEN ThrowAction(errorInString(e3.index, "Expected typename after colon", Undef))
    ELSE ReplaceWith(<<Node("type_annotation", e1.index, getEndingIndex(e3), <<e1, e3>>)>>)

-----------------------------------------------------------------------------
(* Arrow functions *)

\* /[A-Za-z_][A-Za-z0-9_]*/.exec(str): the pattern is not anchored, so it
\* matches as soon as str holds one starting character
isSimpleVariable(str) == \E k \in 1..Len(str) : isValidStartingCharacter(str[k])

\* node.name as the pattern sees it: the text "undefined" where there is none
nameOf(node) ==
    IF node.type \in {"variable", "function_token", "function"} THEN node.txt
    ELSE <<"u", "n", "d", "e", "f", "i", "n", "e", "d">>

implicitTypeInfo(index) ==
    [Token("typename", index, <<"r", "e", "a", "l">>) EXCEPT !.endIndex = index, !.implicit = TRUE]

Signature(index, endIndex, vs, types, returnType) ==
    [type |-> "arrow_signature", index |-> index, endIndex |-> endIndex,
     vars |-> vs, types |-> types, returnType |-> returnType]

NoSignature == Signature(Undef, Undef, <<>>, <<>>, <<>>)

\* the loop over args.children of the "node" case, from item k on
RECURSIVE signatureLoop(_, _, _, _)
signatureLoop(items, k, vs, types) ==
    IF k > Len(items) THEN [vars |-> vs, types |-> types, err |-> NoError]
    ELSE LET item == items[k]
             stop(message) ==
                 [vars |-> vs, types |-> types, err |-> errorInString(item.index, message, Undef)]
         IN
         CASE item.type = "typename" -> stop("Unexpected typename in arrow function arguments")
           [] item.type = "node" -> stop("Unexpected subexpression in arrow function arguments")
           [] item.type = "colon" -> stop("Unexpected colon in arrow function arguments")
           [] item.type = "comma" -> signatureLoop(items, k + 1, vs, types)
           [] item.type = "variable" ->
                IF ~isSimpleVariable(item.txt)
                THEN stop("Arguments to an arrow function cannot be namespaced")
                ELSE signatureLoop(items, k + 1, Append(vs, item),
                                   Append(types, implicitTypeInfo(getEndingIndex(item) + 1)))
           [] item.type = "type_annotation" ->
                IF ~isSimpleVariable(nameOf(item.children[1]))
                THEN stop("Arguments to an arrow function cannot be namespaced")
                ELSE signatureLoop(items, k + 1, Append(vs, item.children[1]),
                                   Append(types, item.children[2]))
           [] OTHER -> stop("Unexpected token in arrow function arguments")

RECURSIVE processArrowFunctionSignature(_)
processArrowFunctionSignature(args) ==
    CASE args.type = "variable" ->
            LET typeInfo == implicitTypeInfo(getEndingIndex(args) + 1) IN
            Result(Signature(args.index, typeInfo.index - 1, <<args>>, <<typeInfo>>, <<>>))
      [] args.type = "type_annotation" ->
            LET realArgs == args.children[1]
                ret == processArrowFunctionSignature(realArgs)
                returnType == args.children[2]
            IN
            IF realArgs.type # "node"
            THEN Thrown(NoSignature, errorInString(realArgs.index, "Invalid argument list", Undef))
            ELSE IF ~ok(ret) THEN ret
            ELSE Result([ret.value EXCEPT !.returnType =
                            <<[returnType EXCEPT !.endIndex = getEndingIndex(returnType)]>>])
      [] args.type = "node" ->
            LET out == signatureLoop(args.children, 1, <<>>, <<>>) IN
            IF out.err.type # "none" THEN Thrown(NoSignature, out.err)
            ELSE IF \E k \in 1..Len(out.vars) : endingIndexThrows(out.vars[k])
                    \/ endingIndexThrows(args)
            THEN Thrown(NoSignature, jsError("TypeError", "Could not find ending index"))
            ELSE Result(Signature(args.index, getEndingIndex(args),
                            [k \in 1..Len(out.vars) |->
                                [out.vars[k] EXCEPT !.endIndex = getEndingIndex(out.vars[k])]],
                            out.types, <<>>))
      [] OTHER ->
            Thrown(NoSignature, errorInString(args.index, "Invalid arrow function arguments", Undef))

\* the callback of Step 9
arrowCallback(e1, e2, e3) ==
    IF e2.type # "arrow_function_token" THEN NoAction
    ELSE IF e1 = Nil
    THEN ThrowAction(errorInString(e2.index, "Arrow function without arguments", Undef))
    ELSE IF e3 = Nil
    THEN ThrowAction(errorInString(e2.index, "Arrow function without definition", Undef))
    ELSE IF e1.type \notin {"node", "variable", "type_annotation"}
    THEN ThrowAction(errorInString(e1.index, "Invalid arrow function arguments", Undef))
    ELSE LET args == processArrowFunctionSignature(e1) IN
         IF ~ok(args) THEN ThrowAction(args.err)
         ELSE IF endingIndexThrows(e3)
         THEN ThrowAction(jsError("TypeError", "Could not find ending index"))
         ELSE ReplaceWith(<<[Node("arrow_function", e1.index, getEndingIndex(e3), <<e3>>)
                                EXCEPT !.signature = <<args.value>>,
                                       !.arrowIndex = e2.index]>>)

\* the callbacks of triplewise, by name
tripleCallback(cb, e1, e2, e3) ==
    CASE cb.kind = "typeAnnotation" -> typeAnnotationCallback(e1, e2, e3)
      [] cb.kind = "arrow" -> arrowCallback(e1, e2, e3)
      [] cb.kind = "operator" -> operatorCallback(cb.pass, e1, e2, e3)

NoPass == [unaries |-> {}, binaries |-> {}, postfixes |-> {}, rtl |-> TRUE]

\* one turn of the for loop of triplewise at index k, given what func did:
\* the array and the index the loop goes on with, or the exception
turn(arr, k, rtl, action) ==
    LET step(j) == IF rtl THEN j - 1 ELSE j + 1 IN
    CASE action.kind = "throw" -> Thrown([arr |-> arr, k |-> k], action.err)
      [] action.kind = "none" -> Result([arr |-> arr, k |-> step(k)])
      [] action.kind = "replace" ->
            Result([arr |-> replaceWith(arr, k, action.subarr),
                    k |-> step(IF Len(action.subarr) = 1 THEN k - 1 ELSE k)])

\* the for loop of triplewise (includeEnds = true, so lower = 0), at index k
RECURSIVE triplewiseLoop(_, _, _, _)
triplewiseLoop(arr, cb, rtl, k) ==
    IF (rtl /\ k < 0) \/ (~rtl /\ k > Len(arr) - 1) THEN Result(arr)
    ELSE Bind(turn(arr, k, rtl,
                   tripleCallback(cb, at(arr, k - 1), at(arr, k), at(arr, k + 1))),
              LAMBDA t : triplewiseLoop(t.arr, cb, rtl, t.k))

triplewise(arr, cb, rtl) ==
    triplewiseLoop(arr, cb, rtl, IF rtl THEN Len(arr) - 1 ELSE 0)

-----------------------------------------------------------------------------
(* parseString, Step 2: the token patterns rejected up front *)

\* the callback of pairwise(tokens, ..., true): the exception it throws for
\* the pair (tok1, tok2), or NoError
checkPair(tok1, tok2) ==
    LET type1 == tok1.type
        type2 == tok2.type
    IN
    IF type1 = "operator_token" /\ type2 = "operator_token" /\ ~couldBePrefixOp(tok2.txt)
    THEN errorInString(tok2.index, "Operator followed by non-unary operator", Undef)
    ELSE IF /\ type1 = "operator_token" /\ type2 = "paren"
            /\ ~couldBePrefixOp(tok1.txt) /\ ~truthy(tok2.opening)
    THEN errorInString(tok1.index, "Operator immediately followed by closing parenthesis", Undef)
    ELSE IF type2 = "operator_token" /\ ~couldBePrefixOp(tok2.txt) /\ tok1 = Nil
    THEN errorInString(tok2.index, "Non-unary operator starting an expression", Undef)
    ELSE IF /\ type2 = "operator_token" /\ ~couldBePrefixOp(tok2.txt)
            /\ ((type1 = "paren" /\ truthy(tok1.opening)) \/ type1 = "comma")
    THEN errorInString(tok2.index,
                       IF type1 = "paren"
                       THEN "Non-unary operator starting a parenthesized subexpression"
                       ELSE "Non-unary operator starting a subexpression", Undef)
    ELSE IF type1 = "operator_token" /\ ~couldBePostfixOp(tok1.txt) /\ tok2 = Nil
    THEN errorInString(tok1.index, "Trailing operator at end of expression", Undef)
    ELSE IF /\ type1 = "operator_token" /\ ~couldBePostfixOp(tok1.txt)
            /\ ((type2 = "paren" /\ ~truthy(tok2.opening)) \/ type2 = "comma")
    THEN errorInString(tok1.index,
                       IF type2 = "paren"
                       THEN "Trailing operator at end of parenthesized subexpression"
                       ELSE "Trailing operator at end of subexpression", Undef)
    ELSE IF type2 = "comma" /\ (tok1 = Nil \/ (type1 = "paren" /\ truthy(tok1.opening)))
    THEN errorInString(tok2.index,
                       IF tok1 # Nil THEN "Comma at start of parenthesized subexpression"
                       ELSE "Comma at start of expression", Undef)
    ELSE IF type2 = "comma" /\ type1 = "comma"
    THEN errorInString(tok2.index, "Consecutive commas (empty subexpression)", Undef)
    \* the test reads tok1.opening, and tok1 is the comma, which has none
    ELSE IF type1 = "comma" /\ (tok2 = Nil \/ (type2 = "paren" /\ ~truthy(tok1.opening)))
    THEN errorInString(tok1.index,
                       IF tok2 # Nil THEN "Comma at end of parenthesized subexpression"
                       ELSE "Comma at end of expression", Undef)
    ELSE IF /\ type2 = "property_access"
            /\ \/ (type1 = "paren" /\ truthy(tok1.opening))
               \/ tok1 = Nil
               \/ type1 \in {"comma", "operator_token"}
    THEN errorInString(tok2.index, "Property access on nothing", Undef)
    ELSE NoError

\* pairwise(tokens, checkPair, true) from pair k (0-based, starting at -1):
\* the first exception thrown
RECURSIVE checkCommonErrors(_, _)
checkCommonErrors(toks, k) ==
    IF k > Len(toks) - 1 THEN NoError
    ELSE IF checkPair(at(toks, k), at(toks, k + 1)).type # "none"
    THEN checkPair(at(toks, k), at(toks, k + 1))
    ELSE checkCommonErrors(toks, k + 1)

-----------------------------------------------------------------------------
(* parseString, Step 3: parenthesized runs become nodes *)

\* startingParenLocations.get(pID): the entries are <<pID, ntIndex, tIndex>>
hasLocation(locs, pID) == \E k \in 1..Len(locs) : locs[k][1] = pID
location(locs, pID) ==
    locs[CHOOSE k \in 1..Len(locs) : locs[k][1] = pID /\ \A m \in k + 1..Len(locs) : locs[m][1] # pID]
withoutLocation(locs, pID) == SelectSeq(locs, LAMBDA e : e[1] # pID)

\* the for loop of Step 3 from token k (0-based) on
RECURSIVE collapseParens(_, _, _, _)
collapseParens(toks, k, newTokens, locs) ==
    IF k >= Len(toks) THEN Result(newTokens)
    ELSE LET token == toks[k + 1] IN
         IF token = Nil
         THEN Thrown(newTokens, jsError("TypeError", "Cannot read properties of undefined"))
         ELSE IF token.type # "paren"
         THEN collapseParens(toks, k + 1, Append(newTokens, token), locs)
         ELSE IF truthy(token.opening)
         THEN collapseParens(toks, k + 1, newTokens,
                  Append(withoutLocation(locs, token.pID), <<token.pID, Len(newTokens), k>>))
         ELSE IF ~hasLocation(locs, token.pID)
         THEN Thrown(newTokens, errorInString(token.index,
                         "Unbalanced parenthesis/brackets/vertical bars", Undef))
         ELSE LET cLoc == location(locs, token.pID)
                  ntIndex == cLoc[2]
                  startingToken == toks[cLoc[3] + 1]
                  tokensBetween == SubSeq(newTokens, ntIndex + 1, Len(newTokens))
                  node == [Node("node", startingToken.index, token.index, tokensBetween)
                              EXCEPT !.parenType = startingToken.paren]
              IN collapseParens(toks, k + 1,
                     Append(SubSeq(newTokens, 1, ntIndex), node),
                     withoutLocation(locs, token.pID))

\* newTokens, then the root node over them
makeRootNode(toks) ==
    LET r == collapseParens(toks, 0, <<>>, <<>>) IN
    IF ~ok(r) THEN Thrown(Nil, r.err)
    ELSE IF Len(r.value) = 0
    THEN Thrown(Nil, jsError("TypeError", "Cannot read properties of undefined"))
    ELSE Result(Node("node", r.value[1].index, Undef, r.value))

-----------------------------------------------------------------------------
(* parseString, Steps 4 to 9: the callbacks handed to applyToNodesRecursively *)

\* Step 4: a | ... | child becomes a call of abs
absNode(child) ==
    [Node("function", child.index, child.endIndex, child.children)
        EXCEPT !.txt = <<"a", "b", "s">>,
               !.parenInfo = <<[startIndex |-> child.index, endIndex |-> child.endIndex,
                                verticalBar |-> TRUE]>>]

convertAbs(node) ==
    Result([node EXCEPT !.children =
        [k \in 1..Len(node.children) |->
            LET child == node.children[k] IN
            IF child.type = "node" /\ child.parenType = "|" THEN absNode(child) ELSE child]])

\* Step 5: pairwise(children, ..., true) from pair k (0-based) on; the pair
\* (undefined, first) does nothing
RECURSIVE functionsLoop(_, _, _)
functionsLoop(children, k, newChildren) ==
    IF k > Len(children) - 1 THEN Result(newChildren)
    ELSE LET e1 == at(children, k)
             e2 == at(children, k + 1)
         IN
         IF e1.type # "function_token"
         THEN functionsLoop(children, k + 1, Append(newChildren, e1))
         ELSE IF e2.type # "node"
         THEN Thrown(newChildren, errorInString(e1.index,
                  "Function declaration without corresponding arguments in parentheses", Undef))
         ELSE functionsLoop(children, k + 2, Append(newChildren,
                  [Node("function", e1.index, e2.endIndex, processFunctionArguments(e2.children))
                      EXCEPT !.txt = e1.txt,
                             !.parenInfo = <<[startIndex |-> e2.index, endIndex |-> e2.endIndex,
                                              verticalBar |-> FALSE]>>]))

processFunctions(node) ==
    IF ~node.hasChildren \/ ~someChild(node, "function_token") THEN Result(node)
    ELSE Bind(functionsLoop(node.children, 0, <<>>),
              LAMBDA c : Result([node EXCEPT !.children = c]))

\* Step 6: the for loop from i = k on (c1 = children[k], c2 = children[k + 1])
RECURSIVE propertyLoop(_, _, _)
propertyLoop(children, k, newChildren) ==
    IF k >= Len(children) - 1 THEN Result(newChildren)
    ELSE LET c1 == at(children, k)
             c2 == at(children, k + 1)
         IN
         IF c2.type # "property_access"
         THEN propertyLoop(children, k + 1, Append(newChildren, c2))
         ELSE IF c1 = Nil
         THEN Thrown(newChildren, errorInString(c2.index, "Property access on nothing", Undef))
         ELSE LET lastChild == at(newChildren, Len(newChildren) - 1)
                  prop == [Token("string", c2.index + 1, c2.txt)
                              EXCEPT !.endIndex = c2.index + Len(c2.txt),
                                     !.src = "property_access"]
              IN propertyLoop(children, k + 1,
                     Append(SubSeq(newChildren, 1, Len(newChildren) - 1),
                            [Blank EXCEPT !.type = "operator", !.txt = <<".">>,
                                          !.hasChildren = TRUE,
                                          !.children = <<lastChild, prop>>]))

processPropertyAccesses(node) ==
    IF ~someChild(node, "property_access") THEN Result(node)
    ELSE Bind(propertyLoop(node.children, -1, <<>>),
              LAMBDA c : Result([node EXCEPT !.children = c]))

\* Steps 7 and 9 run triplewise over the children with its default direction
overChildren(node, cb, rtl) ==
    Bind(triplewise(node.children, cb, rtl), LAMBDA c : Result([node EXCEPT !.children = c]))

processTypeAnnotations(node) ==
    overChildren(node, [kind |-> "typeAnnotation", pass |-> NoPass], TRUE)

\* Step 8, the callback of doIt: the passes in order over one node
RECURSIVE runPasses(_, _, _)
runPasses(node, operatorPasses, k) ==
    IF k > Len(operatorPasses) THEN Result(node)
    ELSE Bind(overChildren(node, [kind |-> "operator", pass |-> operatorPasses[k]],
                           operatorPasses[k].rtl),
              LAMBDA n : runPasses(n, operatorPasses, k + 1))

processOperators(node, operatorPasses) ==
    IF ~node.hasChildren \/ ~someChild(node, "operator_token") THEN Result(node)
    ELSE runPasses(node, operatorPasses, 1)

\* Step 8f: a child list that is too short, or of even length, is no chain
cannotBeChainFromThree(children) == Len(children) < 3 \/ Len(children) % 2 = 0

cannotBeChain(children) == Len(children) < 5 \/ Len(children) % 2 = 0

\* the loop that checks the alternation operand, operator, operand, ...
alternates(children) ==
    \A k \in 1..Len(children) : ((k - 1) % 2 = 0) # isOperator(children[k])

chainString(opNode) ==
    [Token("string", opNode.index, opNode.txt)
        EXCEPT !.endIndex = plus(opNode.index, Len(opNode.txt) - 1), !.src = "operator"]

processChains(node) ==
    LET children == node.children IN
    IF cannotBeChain(children) \/ ~alternates(children)
    THEN Result(node)
    ELSE Result([node EXCEPT !.type = "operator", !.txt = <<"c", "c", "h", "a", "i", "n">>,
                             !.parenType = "", !.implicit = FALSE,
                             !.children = [k \in 1..Len(children) |->
                                 IF k % 2 = 0 THEN chainString(children[k]) ELSE children[k]]])

\* Step 9 with the triples taken from left to right
processArrowFunctionsLeftToRight(node) ==
    IF ~someChild(node, "arrow_function_token") THEN Result(node)
    ELSE overChildren(node, [kind |-> "arrow", pass |-> NoPass], FALSE)

processArrowFunctions(node) ==
    IF ~someChild(node, "arrow_function_token") THEN Result(node)
    ELSE overChildren(node, [kind |-> "arrow", pass |-> NoPass], TRUE)

-----------------------------------------------------------------------------
(* parseString, Steps 10 to 12 *)

\* findTokenIndexByIndex(index): tokens.findIndex(tok => tok.index === index)
findTokenIndexByIndex(toks, index) ==
    LET found == {k \in 1..Len(toks) : toks[k].index = index} IN
    IF found = {} THEN -1
    ELSE (CHOOSE k \in found : \A m \in found : k <= m) - 1

\* A token is an object the passes rewrite in place: the node of the tree
\* that is the rewritten token numbered tid, Nil if the tree holds none
RECURSIVE findByTid(_, _)
findByTid(node, tid) ==
    IF node.tid = tid THEN node
    ELSE LET hits == {k \in 1..Len(node.children) : findByTid(node.children[k], tid) # Nil} IN
         IF hits = {} THEN Nil
         ELSE findByTid(node.children[CHOOSE k \in hits : TRUE], tid)

\* tokens[k] (0-based) as the object stands when Step 10 reads it
currentToken(toks, root, k) ==
    LET tok == at(toks, k) IN
    IF tok = Nil \/ findByTid(root, tok.tid) = Nil THEN tok ELSE findByTid(root, tok.tid)

\* nodeToString(node): the kind of exception it throws, "none" if it returns
RECURSIVE nodeToStringError(_)
RECURSIVE arrayToStringError(_, _)
nodeToStringError(node) ==
    CASE node = Nil -> "TypeError"
      [] node.type \in {"function", "node", "type_annotation"} ->
            arrayToStringError(node.children, 1)
      [] node.type = "operator" ->
            IF Len(node.children) \in {1, 2} THEN arrayToStringError(node.children, 1)
            ELSE "Error"
      [] node.type = "arrow_function" -> "TypeError"   \* node.arguments is undefined
      [] node.type = "string" -> "ReferenceError"      \* reads a variable that is not declared
      [] OTHER -> "none"

arrayToStringError(arr, k) ==
    IF k > Len(arr) THEN "none"
    ELSE IF nodeToStringError(arr[k]) # "none" THEN nodeToStringError(arr[k])
    ELSE arrayToStringError(arr, k + 1)

\* Step 10: the exception thrown for one node, or NoError
checkSubexpression(node, toks, root, isRoot) ==
    LET subchildren == node.children
        issue == Len(subchildren) = 0
        commas == {k \in 1..Len(subchildren) : subchildren[k].type = "comma"}
        offendingCommaOperator ==
            IF commas = {} THEN Nil
            ELSE subchildren[CHOOSE k \in commas : \A m \in commas : k <= m]
        errorMsg == CASE issue /\ isRoot -> "Empty expression"
                      [] issue /\ ~isRoot -> "Empty parenthesized subexpression"
                      [] ~issue /\ isRoot -> "Expression, containing a comma,"
                      [] OTHER -> "Parenthesized subexpression, containing a comma,"
        tokI == findTokenIndexByIndex(toks, node.index)
        prevToken == currentToken(toks, root, tokI - 1)
        implicitLikely == prevToken.type = "operator_token" /\ prevToken.implicit
        ppTokenI == IF implicitLikely THEN tokI - 2 ELSE tokI - 1
        prevprevToken == currentToken(toks, root, ppTokenI)
        shown == [k \in 1..(tokI + 1 - max(0, ppTokenI)) |->
                     currentToken(toks, root, max(0, ppTokenI) + k - 1)]
    IN
    IF node.type # "node" THEN NoError
    ELSE IF ~issue /\ offendingCommaOperator = Nil THEN NoError
    ELSE IF /\ tokI > 0
            /\ prevToken.type \in {"operator_token", "variable"}
            /\ prevprevToken.type = "variable"
    THEN IF nodeToStringError(Node("node", Undef, Undef, shown)) # "none"
         THEN jsError(nodeToStringError(Node("node", Undef, Undef, shown)), "nodeToString")
         ELSE errorInString(tokI, errorMsg, getEndingIndex(prevprevToken) + 1)
    ELSE IF tokI # 0 /\ offendingCommaOperator # Nil
    THEN errorInString(offendingCommaOperator.index, errorMsg, tokI)
    ELSE errorInString(tokI, errorMsg, Undef)

checkSubexpressions(node, toks, root, isRoot) ==
    LET e == checkSubexpression(node, toks, root, isRoot) IN
    IF e.type = "none" THEN Result(node) ELSE Thrown(node, e)

\* Step 11: the kinds that must not be left in the tree
isResidualParen(node) == node.type \in {"comma", "paren"}

isResidual(node) ==
    node.type \in {"comma", "paren", "function_token", "operator_token", "property_access",
                   "colon", "typename", "arrow_function_token", "type_annotation"}

checkResidual(node) ==
    IF isResidual(node)
    THEN Thrown(node, errorInString(node.index, "Unprocessed token", Undef))
    ELSE Result(node)

\* Step 12: the callback that fills in index or endIndex
completeIndices(node) ==
    IF node.index = Undef
    THEN IF node.hasChildren /\ Len(node.children) = 0
         THEN Thrown(node, jsError("TypeError", "Cannot read properties of undefined"))
         ELSE Result([node EXCEPT !.index = getStartingIndex(node)])
    ELSE IF node.endIndex = Undef
    THEN IF endingIndexThrows(node)
         THEN Thrown(node, jsError("TypeError", "Could not find ending index"))
         ELSE Result([node EXCEPT !.endIndex = getEndingIndex(node)])
    ELSE Result(node)

-----------------------------------------------------------------------------
(* applyToNodesRecursively *)

\* The passes of parseString, by name: whether children come first, whether
\* children are walked right to left, whether leaves are skipped
childrenFirst(step) ==
    step \in {"functions", "typeAnnotations", "firstOperators", "secondOperators",
              "arrowFunctions", "indices"}

rtlOf(step) == step = "arrowFunctions"

onlyNodesWithChildren(step) ==
    step \in {"abs", "functions", "propertyAccesses", "typeAnnotations", "chains",
              "arrowFunctions"}

\* func(node, parent) for the pass named step
callback(step, node, toks, root, isRoot) ==
    CASE step = "abs" -> convertAbs(node)
      [] step = "functions" -> processFunctions(node)
      [] step = "propertyAccesses" -> processPropertyAccesses(node)
      [] step = "typeAnnotations" -> processTypeAnnotations(node)
      [] step = "firstOperators" -> processOperators(node, firstOperatorPass)
      [] step = "chains" -> processChains(node)
      [] step = "secondOperators" -> processOperators(node, secondOperatorPass)
      [] step = "arrowFunctions" -> processArrowFunctions(node)
      [] step = "subexpressions" -> checkSubexpressions(node, toks, root, isRoot)
      [] step = "residual" -> checkResidual(node)
      [] step = "indices" -> completeIndices(node)

\* the test of the inner loop: a child that is not recursed into
isLeaf(child) == ~child.hasChildren \/ Len(child.children) = 0

\* visitNode: func and the walk over the children, in the order of the
\* pass, for the top node or for a child; a leaf is not walked.
\* visitChildren: the inner loop over the children, n of them done.
\* Both stop at the first exception.
RECURSIVE visitNode(_, _, _, _, _, _)
RECURSIVE visitChildren(_, _, _, _, _)
walk(step, node, toks, root) ==
    Bind(visitChildren(step, node.children, 0, toks, root),
         LAMBDA c : Result([node EXCEPT !.children = c]))

visitNode(step, node, toks, root, isRoot, leaf) ==
    Bind(IF childrenFirst(step) /\ ~leaf THEN walk(step, node, toks, root) ELSE Result(node),
         LAMBDA n : Bind(callback(step, n, toks, root, isRoot),
                         LAMBDA v : IF ~childrenFirst(step) /\ ~leaf
                                    THEN walk(step, v, toks, root) ELSE Result(v)))

visitChildren(step, children, n, toks, root) ==
    IF n >= Len(children) THEN Result(children)
    ELSE LET j == IF rtlOf(step) THEN Len(children) - n ELSE n + 1 IN
         Bind(IF isLeaf(children[j]) /\ onlyNodesWithChildren(step) THEN Result(children[j])
              ELSE visitNode(step, children[j], toks, root, FALSE, isLeaf(children[j])),
              LAMBDA v : visitChildren(step, [children EXCEPT ![j] = v], n + 1, toks, root))

applyToNodesRecursively(topNode, step, toks) ==
    visitNode(step, topNode, toks, topNode, TRUE, FALSE)

-----------------------------------------------------------------------------
(* checkExprDepth *)

\* The traversal of checkExprDepth below node, which is on a node stack of
\* stackLength entries: whether some call of the callback gets a depth above
\* maxDepth.  The traversal is in pre-order, so func is called on a child
\* before the child is pushed, with depth = nodeStack.length - 1.
RECURSIVE tooDeepBelow(_, _, _)
tooDeepBelow(node, stackLength, maxDepth) ==
    \E k \in 1..Len(node.children) :
        \/ stackLength - 1 > maxDepth
        \/ /\ ~isLeaf(node.children[k])
           /\ tooDeepBelow(node.children[k], stackLength + 1, maxDepth)

\* checkExprDepth(root, maxDepth): func is called on the top node with depth 0
checkExprDepth(root, maxDepth) ==
    IF 0 > maxDepth \/ tooDeepBelow(root, 1, maxDepth)
    THEN Thrown(root, [type |-> "ParserError", index |-> Undef,
                       message |-> "Expression is too deeply nested!", note |-> Undef])
    ELSE Result(root)

-----------------------------------------------------------------------------
(* The sources parsed: runs of lexemes *)

\* the longest run of expression lexemes, of bracket lexemes, of bar lexemes
MaxExprLexemes == 5
MaxParenLexemes == 4
MaxBarLexemes == 6
MaxTokenLexemes == 5
MaxMultLexemes == 4
MaxProductLexemes == 4
MaxPowerLexemes == 5
MaxChainLexemes == 6
MaxCallLexemes == 5
MaxNumberLexemes == 5
MaxWordLexemes == 5
MaxTemplateLexemes == 5
MaxCallDepth == 2
MaxArrowLexemes == 6
MaxNamespaceLexemes == 6
MaxDepthLexemes == 5
MaxDepthLimit == 2
MaxObjects == 4
MaxLineLength == 78
MaxNodeStack == 6
MaxSubexprLexemes == 5
MaxScanLexemes == 4

ExprLexemes == {<<"x">>, <<" ">>, <<"!">>, <<"<">>, <<".", "b">>, <<"+">>}
ParenLexemes == {<<"(">>, <<")">>, <<"[">>, <<"]">>, <<"|">>, <<"x">>}
BarLexemes == {<<"|">>, <<"x">>, <<"3", "*">>, <<"(">>}
TokenLexemes == {<<"x">>, <<"(">>, <<")">>, <<",">>, <<":">>, <<"-", ">">>, <<"!">>}
MultLexemes == {<<"x">>, <<"3">>, <<" ">>, <<"(">>, <<")">>, <<"[">>, <<"]">>, <<"|">>}
PowerLexemes == {<<"x">>, <<"y">>, <<"z">>, <<"^">>, <<"-">>}
ChainLexemes == {<<"x">>, <<"<">>, <<"-">>, <<"+">>}
CallLexemes == {<<"x", "(">>, <<"x">>, <<",">>, <<")">>, <<"(">>}
NumberLexemes == {<<"1">>, <<".">>, <<"e">>, <<"+">>, <<" ">>}
WordLexemes == {<<"x">>, <<"a", "n", "d">>, <<"o", "r">>, <<" ">>}
TemplateLexemes ==
    {<<"x">>, <<":", ":", "<">>, <<">">>, <<",">>, <<"(", "x", ")">>, <<":">>}
ArrowLexemes == {<<"x">>, <<"-", ">">>, <<"(">>, <<")">>, <<":", "z">>}
NamespaceLexemes ==
    {<<"x", ":", ":", "b">>, <<"-", ">">>, <<"(">>, <<")">>, <<":", "z">>}
DepthLexemes == {<<"x">>, <<"(">>, <<")">>, <<"+">>, <<"-">>}
ScanLexemes == {<<"x">>, <<" ">>, <<"(">>, <<":">>, <<"1">>, <<".">>, <<"-">>, <<">">>}
SubexprLexemes == {<<"x">>, <<"3", "3">>, <<"*">>, <<"(">>, <<")">>, <<",">>}
ProductLexemes == {<<"x">>, <<"3">>, <<" ">>, <<"(">>, <<")">>, <<"|">>, <<"^">>, <<"-">>}

\* the lexemes of a run, written one after the other
RECURSIVE Flat(_)
Flat(run) == IF Len(run) = 0 THEN <<>> ELSE Head(run) \o Flat(Tail(run))

\* every concatenation of at most n lexemes
Runs(lexemes, n) == UNION {{Flat(run) : run \in [1..k -> lexemes]} : k \in 0..n}

\* a variable, a product, and the calls of x nested at most d deep with at
\* most two arguments each, the second one nested at most once
RECURSIVE Calls(_)
Calls(d) ==
    IF d = 0 THEN {<<"x">>, <<"3", "x">>}
    ELSE LET T == Calls(d - 1)
             U == Calls(IF d > 1 THEN 1 ELSE 0)
         IN T \cup {<<"x", "(", ")">>}
              \cup {<<"x", "(">> \o a \o <<")">> : a \in T}
              \cup {<<"x", "(">> \o a \o <<",">> \o b \o <<")">> : a \in T, b \in U}

\* arrow functions of two parameters
ArrowLists ==
    {<<"(", "x", ",", "y", ")", "-", ">", "x">>,
     <<"(", "x", ":", "z", ",", "y", ")", "-", ">", "x", "-", ">", "y">>,
     <<"(", "x", ",", "y", ")", ":", "z", "-", ">", "(", "x", ")">>}

-----------------------------------------------------------------------------
(* parseString as a state machine *)

InitWithDepth(sources, depths) ==
    /\ string \in sources
    /\ implicitMultiplication \in BOOLEAN
    /\ pc = "tokenize"
    /\ tokens = <<>>
    /\ i = 0
    /\ stack = <<>>
    /\ id = 0
    /\ rootNode = Nil
    /\ err = NoError
    /\ maxExpressionDepth \in depths
    /\ currentIndex = 0
    /\ expectingTypename = FALSE
    /\ objects = <<>>
    /\ options = NoOptions
    /\ nodeStack = <<>>
    /\ nodeChildIndexStack = <<>>
    /\ calls = <<>>
    /\ line = <<>>
    /\ errorIndex = 0
    /\ excerpt = <<>>
    /\ newIndex = 0

\* maxExpressionDepth is left at its default
InitWith(sources) == InitWithDepth(sources, {Infinity})

Init == InitWith(Runs(ExprLexemes, MaxExprLexemes))

InitDepth == InitWithDepth(Runs(DepthLexemes, MaxDepthLexemes), 0..MaxDepthLimit)

InitParens == InitWith(Runs(ParenLexemes, MaxParenLexemes))

InitBars == InitWith(Runs(BarLexemes, MaxBarLexemes))

InitTokens == InitWith(Runs(TokenLexemes, MaxTokenLexemes))

InitMult == InitWith(Runs(MultLexemes, MaxMultLexemes))

InitProduct == InitWith(Runs(ProductLexemes, MaxProductLexemes))

InitPower == InitWith(Runs(PowerLexemes, MaxPowerLexemes))

InitChain == InitWith(Runs(ChainLexemes, MaxChainLexemes))

InitTemplates == InitWith(Runs(TemplateLexemes, MaxTemplateLexemes))

InitWords == InitWith(Runs(WordLexemes, MaxWordLexemes))

InitNumbers == InitWith(Runs(NumberLexemes, MaxNumberLexemes))

InitArrow == InitWith(Runs(ArrowLexemes, MaxArrowLexemes) \cup ArrowLists)

InitNamespace == InitWith(Runs(NamespaceLexemes, MaxNamespaceLexemes))

InitSubexpr == InitWith(Runs(SubexprLexemes, MaxSubexprLexemes))

InitCalls == InitWith(Runs(CallLexemes, MaxCallLexemes) \cup Calls(MaxCallDepth))

\* an exception leaves parseString
Raise(e) ==
    /\ pc' = "error"
    /\ err' = e

\* simpleTokenizer(string, maxTemplateDepth)
Tokenize ==
    /\ pc = "tokenize"
    /\ LET r == simpleTokenizer(string, DEFAULT_MAX_TEMPLATE_DEPTH) IN
       IF r.err.type # "none"
       THEN Raise(r.err) /\ UNCHANGED tokens
       ELSE pc' = "balance" /\ tokens' = r.tokens /\ UNCHANGED err
    /\ UNCHANGED <<aside, string, implicitMultiplication, i, stack, id, rootNode>>

\* checkParensBalanced: one turn of the for loop
BalanceToken ==
    /\ pc = "balance"
    /\ i < Len(tokens)
    /\ LET token == tokens[i + 1]
           opened == [token EXCEPT !.pID = id + 1, !.opening = "true"]
           open(kind) ==
               /\ stack' = push(stack, id + 1, kind)
               /\ id' = id + 1
               /\ tokens' = [tokens EXCEPT ![i + 1] = opened]
               /\ i' = i + 1
               /\ UNCHANGED <<pc, err>>
           close(kind) ==
               /\ stack' = popped(stack)
               /\ IF closerRejected(poppedKind(stack), kind)
                  THEN /\ Raise(unbalancedParenError(tokens, token, closerId(stack)))
                       /\ UNCHANGED <<tokens, i>>
                  ELSE /\ tokens' = [tokens EXCEPT ![i + 1] =
                                        [token EXCEPT !.pID = closerId(stack), !.opening = "false"]]
                       /\ i' = i + 1
                       /\ UNCHANGED <<pc, err>>
               /\ UNCHANGED id
       IN
       CASE token.type = "paren" /\ token.paren = "(" -> open(1)
         [] token.type = "paren" /\ token.paren = "[" -> open(2)
         [] token.type = "paren" /\ token.paren = "|" ->
              IF pushBar(tokens, i, peek(stack)) THEN open(3)
              ELSE /\ stack' = popped(stack)
                   /\ tokens' = [tokens EXCEPT ![i + 1] =
                                    [token EXCEPT !.pID = poppedId(stack), !.opening = "false"]]
                   /\ i' = i + 1
                   /\ UNCHANGED <<pc, err, id>>
         [] token.type = "paren" /\ token.paren = ")" -> close(1)
         [] token.type = "paren" /\ token.paren = "]" -> close(2)
         [] OTHER -> i' = i + 1 /\ UNCHANGED <<pc, err, id, stack, tokens>>
    /\ UNCHANGED <<aside, string, implicitMultiplication, rootNode>>

\* checkParensBalanced: after the loop
BalanceEnd ==
    /\ pc = "balance"
    /\ i = Len(tokens)
    /\ IF Len(stack) # 0
       THEN /\ Raise(errorInString(Len(string), "Unbalanced parentheses/brackets/vertical bars",
                                   findParenWithId(tokens, unclosedTokenId(stack)).index))
            /\ stack' = popped(stack)
       ELSE pc' = "insert" /\ UNCHANGED <<err, stack>>
    /\ UNCHANGED <<aside, string, implicitMultiplication, tokens, i, id, rootNode>>

\* the rest of expressionTokenizer, and the return of null for no tokens
InsertImplicitMultiplication ==
    /\ pc = "insert"
    /\ tokens' = numbered(IF implicitMultiplication THEN insertImplicitMultiplication(tokens)
                          ELSE tokens)
    /\ pc' = IF Len(tokens') = 0 THEN "done" ELSE "step2"
    /\ UNCHANGED <<aside, string, implicitMultiplication, i, stack, id, rootNode, err>>

\* Step 2
CheckCommonErrors ==
    /\ pc = "step2"
    /\ LET e == checkCommonErrors(tokens, -1) IN
       IF e.type # "none" THEN Raise(e) ELSE pc' = "step3" /\ UNCHANGED err
    /\ UNCHANGED <<aside, string, implicitMultiplication, tokens, i, stack, id, rootNode>>

\* the end of a pass over the tree: the tree it leaves, or its exception
Continue(to, r) ==
    /\ IF ok(r)
       THEN rootNode' = r.value /\ pc' = to /\ UNCHANGED err
       ELSE Raise(r.err) /\ UNCHANGED rootNode
    /\ UNCHANGED <<aside, string, implicitMultiplication, tokens, i, stack, id>>

\* Step 3
CollapseParens ==
    /\ pc = "step3"
    /\ Continue("step4", makeRootNode(tokens))

\* Step 4
ConvertAbs ==
    /\ pc = "step4"
    /\ Continue("step5", applyToNodesRecursively(rootNode, "abs", tokens))

\* Step 5
ProcessFunctions ==
    /\ pc = "step5"
    /\ Continue("step6", applyToNodesRecursively(rootNode, "functions", tokens))

\* Step 6
ProcessPropertyAccesses ==
    /\ pc = "step6"
    /\ Continue("step7", applyToNodesRecursively(rootNode, "propertyAccesses", tokens))

\* Step 7
ProcessTypeAnnotations ==
    /\ pc = "step7"
    /\ Continue("step8", applyToNodesRecursively(rootNode, "typeAnnotations", tokens))

\* Step 8a-e: operatorPasses = firstOperatorPass; doIt()
FirstOperatorPass ==
    /\ pc = "step8"
    /\ Continue("step8f", applyToNodesRecursively(rootNode, "firstOperators", tokens))

\* Step 8f
ProcessChains ==
    /\ pc = "step8f"
    /\ Continue("step8g", applyToNodesRecursively(rootNode, "chains", tokens))

\* Step 8g: operatorPasses = secondOperatorPass; doIt()
SecondOperatorPass ==
    /\ pc = "step8g"
    /\ Continue("step9", applyToNodesRecursively(rootNode, "secondOperators", tokens))

\* Step 9
ProcessArrowFunctions ==
    /\ pc = "step9"
    /\ Continue("step10", applyToNodesRecursively(rootNode, "arrowFunctions", tokens))

\* Step 10
CheckSubexpressions ==
    /\ pc = "step10"
    /\ Continue("step11", applyToNodesRecursively(rootNode, "subexpressions", tokens))

\* Step 11
CheckResidual ==
    /\ pc = "step11"
    /\ Continue("step12", applyToNodesRecursively(rootNode, "residual", tokens))

\* Step 12
CompleteIndices ==
    /\ pc = "step12"
    /\ Continue("step13", applyToNodesRecursively(rootNode, "indices", tokens))

\* the depth check, and the return of rootNode
CheckExprDepth ==
    /\ pc = "step13"
    /\ Continue("done", IF maxExpressionDepth # Infinity
                        THEN checkExprDepth(rootNode, maxExpressionDepth)
                        ELSE Result(rootNode))

Next ==
    \/ Tokenize
    \/ BalanceToken
    \/ BalanceEnd
    \/ InsertImplicitMultiplication
    \/ CheckCommonErrors
    \/ CollapseParens
    \/ ConvertAbs
    \/ ProcessFunctions
    \/ ProcessPropertyAccesses
    \/ ProcessTypeAnnotations
    \/ FirstOperatorPass
    \/ ProcessChains
    \/ SecondOperatorPass
    \/ ProcessArrowFunctions
    \/ CheckSubexpressions
    \/ CheckResidual
    \/ CompleteIndices
    \/ CheckExprDepth

Spec == Init /\ [][Next]_vars

SpecParens == InitParens /\ [][Next]_vars

SpecBars == InitBars /\ [][Next]_vars

SpecTokens == InitTokens /\ [][Next]_vars

SpecMult == InitMult /\ [][Next]_vars

SpecProduct == InitProduct /\ [][Next]_vars

SpecPower == InitPower /\ [][Next]_vars

SpecChain == InitChain /\ [][Next]_vars

SpecTemplates == InitTemplates /\ [][Next]_vars

SpecWords == InitWords /\ [][Next]_vars

SpecNumbers == InitNumbers /\ [][Next]_vars

SpecCalls == InitCalls /\ [][Next]_vars

SpecArrow == InitArrow /\ [][Next]_vars

SpecDepth == InitDepth /\ [][Next]_vars

SpecNamespace == InitNamespace /\ [][Next]_vars

SpecSubexpr == InitSubexpr /\ [][Next]_vars

-----------------------------------------------------------------------------
(* parseString as a function of the source and the option *)

\* checkParensBalanced from token k (0-based) on, with the stack and the last
\* pair id given: the tokens with their pair ids, or the exception
RECURSIVE checkParensBalanced(_, _, _, _, _)
checkParensBalanced(s, toks, k, stk, lastId) ==
    IF k >= Len(toks)
    THEN IF Len(stk) # 0
         THEN Thrown(toks, errorInString(Len(s), "Unbalanced parentheses/brackets/vertical bars",
                                         findParenWithId(toks, unclosedTokenId(stk)).index))
         ELSE Result(toks)
    ELSE LET token == toks[k + 1]
             open(kind) ==
                 checkParensBalanced(s,
                     [toks EXCEPT ![k + 1] = [token EXCEPT !.pID = lastId + 1, !.opening = "true"]],
                     k + 1, push(stk, lastId + 1, kind), lastId + 1)
             shut(pairId) ==
                 checkParensBalanced(s,
                     [toks EXCEPT ![k + 1] = [token EXCEPT !.pID = pairId, !.opening = "false"]],
                     k + 1, popped(stk), lastId)
             close(kind) ==
                 IF closerRejected(poppedKind(stk), kind)
                 THEN Thrown(toks, unbalancedParenError(toks, token, closerId(stk)))
                 ELSE shut(closerId(stk))
         IN CASE token.type = "paren" /\ token.paren = "(" -> open(1)
              [] token.type = "paren" /\ token.paren = "[" -> open(2)
              [] token.type = "paren" /\ token.paren = "|" ->
                   IF pushBar(toks, k, peek(stk)) THEN open(3) ELSE shut(poppedId(stk))
              [] token.type = "paren" /\ token.paren = ")" -> close(1)
              [] token.type = "paren" /\ token.paren = "]" -> close(2)
              [] OTHER -> checkParensBalanced(s, toks, k + 1, stk, lastId)

\* expressionTokenizer(string, options)
expressionTokenizer(s, implicitMultiplicationOn) ==
    LET scanned == simpleTokenizer(s, DEFAULT_MAX_TEMPLATE_DEPTH) IN
    IF scanned.err.type # "none" THEN Thrown(<<>>, scanned.err)
    ELSE Bind(checkParensBalanced(s, scanned.tokens, 0, <<>>, 0),
              LAMBDA toks : Result(numbered(IF implicitMultiplicationOn
                                            THEN insertImplicitMultiplication(toks)
                                            ELSE toks)))

\* the passes of Steps 4 to 12, in the order parseString makes them
steps ==
    <<"abs", "functions", "propertyAccesses", "typeAnnotations", "firstOperators", "chains",
      "secondOperators", "arrowFunctions", "subexpressions", "residual", "indices">>

RECURSIVE passesFrom(_, _, _)
passesFrom(k, root, toks) ==
    IF k > Len(steps) THEN Result(root)
    ELSE Bind(applyToNodesRecursively(root, steps[k], toks),
              LAMBDA r : passesFrom(k + 1, r, toks))

\* parseString(string, options): the tree (Nil for null), or the exception
parseString(s, implicitMultiplicationOn) ==
    Bind(expressionTokenizer(s, implicitMultiplicationOn),
         LAMBDA toks :
            IF Len(toks) = 0 THEN Result(Nil)
            ELSE IF checkCommonErrors(toks, -1).type # "none"
            THEN Thrown(Nil, checkCommonErrors(toks, -1))
            ELSE Bind(makeRootNode(toks), LAMBDA root : passesFrom(1, root, toks)))

-----------------------------------------------------------------------------
(* applyToNodesRecursively as a state machine over a structure of objects *)

\* topNode: objects are numbered, the top one is the first; 0 stands for null
Top == 1

\* the objects that hold object k in their children
parentsOf(objs, k) ==
    {p \in 1..Len(objs) : \E c \in 1..Len(objs[p].children) : objs[p].children[c] = k}

\* the structures walked: every tree of at most MaxObjects objects, its
\* leaves all with an empty children array or all without the property, and
\* the same with one more reference from an object a to an object b (a
\* cycle when b is a or lies above a, a shared or repeated child otherwise)
Shapes(n) == {par \in [2..n -> 1..n] : \A k \in 2..n : par[k] < k}

RECURSIVE ascending(_, _)
ascending(S, k) ==
    IF S = {} THEN <<>>
    ELSE IF k \in S THEN <<k>> \o ascending(S \ {k}, k + 1)
    ELSE ascending(S, k + 1)

TreeOf(n, par, bare) ==
    [k \in 1..n |->
        LET kids == {c \in 2..n : par[c] = k} IN
        [hasChildren |-> kids # {} \/ ~bare, children |-> ascending(kids, 1)]]

Linked(objs, a, b) ==
    [objs EXCEPT ![a] = [hasChildren |-> TRUE, children |-> Append(objs[a].children, b)]]

Trees ==
    UNION {{TreeOf(n, par, bare) : par \in Shapes(n), bare \in BOOLEAN} : n \in 1..MaxObjects}

Structures ==
    Trees \cup UNION {{Linked(objs, a, b) : a \in 1..Len(objs), b \in 1..Len(objs)} :
                         objs \in Trees}

\* the arguments after func: depth is 2 or Infinity
OptionSets ==
    [childrenFirst : BOOLEAN, rtl : BOOLEAN, onlyNodesWithChildren : BOOLEAN,
     depth : {2, Infinity}, checkCycles : BOOLEAN]

InitWalk ==
    /\ string = <<>>
    /\ implicitMultiplication = FALSE
    /\ maxExpressionDepth = Infinity
    /\ tokens = <<>>
    /\ i = 0
    /\ stack = <<>>
    /\ id = 0
    /\ rootNode = Nil
    /\ err = NoError
    /\ currentIndex = 0
    /\ expectingTypename = FALSE
    /\ line = <<>>
    /\ errorIndex = 0
    /\ excerpt = <<>>
    /\ newIndex = 0
    /\ pc = "apply"
    /\ objects \in Structures
    /\ options \in OptionSets
    /\ nodeStack = <<>>
    /\ nodeChildIndexStack = <<>>
    /\ calls = <<>>

\* func(node, parent) called directly: depth is not passed
direct(node, parent) == [node |-> node, parent |-> parent, depth |-> Undef]

\* forwardToFunc3(node, parent), with the node stack as it stands at the call
forwardToFunc3(node, parent, stk) == [node |-> node, parent |-> parent, depth |-> Len(stk) - 1]

\* the index the iteration over the children of an object starts at
firstIndex(object) == IF options.rtl THEN Len(object.children) - 1 ELSE 0

\* the cycle check that looks at the top of the stack only
onStackTop(child) == nodeStack[Len(nodeStack)] = child

\* nodeStack.some(node => node === child)
onStack(child) == \E s \in 1..Len(nodeStack) : nodeStack[s] = child

\* the inner for loop of the main loop, from index k on, with the calls made
\* so far: how it is left (the children are exhausted, child k is descended
\* into, child k is on the stack already, or the children cannot be read),
\* the index it is left at and the calls made
RECURSIVE innerLoop(_, _, _)
innerLoop(currentNode, k, made) ==
    LET currentChildren == objects[currentNode].children
        child == currentChildren[k + 1]
        left(how) == [how |-> how, i |-> k, calls |-> made]
    IN
    IF ~options.rtl /\ ~objects[currentNode].hasChildren THEN left("TypeError")
    ELSE IF (options.rtl /\ k < 0) \/ (~options.rtl /\ k >= Len(currentChildren))
    THEN left("exhausted")
    ELSE IF ~objects[child].hasChildren \/ Len(objects[child].children) = 0
    THEN innerLoop(currentNode, IF options.rtl THEN k - 1 ELSE k + 1,
                   IF options.onlyNodesWithChildren THEN made
                   ELSE Append(made, forwardToFunc3(child, currentNode, nodeStack)))
    ELSE IF options.checkCycles /\ onStack(child)
    THEN left("CyclicalError")
    ELSE [how |-> "descend", i |-> k,
          calls |-> IF options.childrenFirst THEN made
                    ELSE Append(made, forwardToFunc3(child, currentNode, nodeStack))]

\* one turn of the main loop: the inner loop if the stack is not too deep
mainTurn ==
    IF Len(nodeStack) < options.depth
    THEN innerLoop(nodeStack[Len(nodeStack)], nodeChildIndexStack[Len(nodeStack)], calls)
    ELSE [how |-> "exhausted", i |-> Undef, calls |-> calls]

\* the checks of the arguments, the stacks, and func on the top node
StartWalk ==
    /\ pc = "apply"
    /\ nodeStack' = <<Top>>
    /\ LET early == IF ~objects[Top].hasChildren THEN <<direct(Top, 0)>> ELSE <<>> IN
       IF options.rtl /\ ~objects[Top].hasChildren
       THEN /\ Raise(jsError("TypeError", "Cannot read properties of undefined"))
            /\ calls' = early
            /\ UNCHANGED nodeChildIndexStack
       ELSE /\ nodeChildIndexStack' = <<firstIndex(objects[Top])>>
            /\ calls' = IF options.childrenFirst THEN early
                        ELSE Append(early, forwardToFunc3(Top, 0, nodeStack'))
            /\ pc' = "main"
            /\ UNCHANGED err
    /\ UNCHANGED <<parseVars, scanVars, reportVars, objects, options>>

\* a turn of the main loop that ends with a child pushed on the stacks
Descend ==
    /\ pc = "main"
    /\ Len(nodeStack) > 0
    /\ Len(nodeStack) < MaxNodeStack
    /\ mainTurn.how = "descend"
    /\ LET child == objects[nodeStack[Len(nodeStack)]].children[mainTurn.i + 1] IN
       /\ nodeStack' = Append(nodeStack, child)
       /\ nodeChildIndexStack' =
              Append([nodeChildIndexStack EXCEPT ![Len(nodeStack)] =
                          mainTurn.i + (IF options.rtl THEN -1 ELSE 1)],
                     firstIndex(objects[child]))
    /\ calls' = mainTurn.calls
    /\ UNCHANGED <<pc, err, parseVars, scanVars, reportVars, objects, options>>

\* a turn of the main loop that ends with the current node popped
Ascend ==
    /\ pc = "main"
    /\ Len(nodeStack) > 0
    /\ mainTurn.how = "exhausted"
    /\ calls' = IF options.childrenFirst
                THEN Append(mainTurn.calls, forwardToFunc3(nodeStack[Len(nodeStack)], 0, nodeStack))
                ELSE mainTurn.calls
    /\ nodeStack' = SubSeq(nodeStack, 1, Len(nodeStack) - 1)
    /\ nodeChildIndexStack' = SubSeq(nodeChildIndexStack, 1, Len(nodeStack) - 1)
    /\ UNCHANGED <<pc, err, parseVars, scanVars, reportVars, objects, options>>

\* a turn of the main loop that throws: CyclicalError from the cycle check,
\* TypeError from reading the length of children that are not there
ThrowInWalk ==
    /\ pc = "main"
    /\ Len(nodeStack) > 0
    /\ mainTurn.how \in {"CyclicalError", "TypeError"}
    /\ Raise(jsError(mainTurn.how, IF mainTurn.how = "CyclicalError"
                                    THEN "Object contains a cycle!"
                                    ELSE "Cannot read properties of undefined"))
    /\ calls' = mainTurn.calls
    /\ UNCHANGED <<nodeStack, nodeChildIndexStack, parseVars, scanVars, reportVars,
                   objects, options>>

\* peek() finds the stack empty: the main loop is left and the function returns
EndWalk ==
    /\ pc = "main"
    /\ Len(nodeStack) = 0
    /\ pc' = "returned"
    /\ UNCHANGED <<err, calls, nodeStack, nodeChildIndexStack, parseVars, scanVars,
                   reportVars, objects, options>>

NextWalk ==
    \/ StartWalk
    \/ Descend
    \/ Ascend
    \/ ThrowInWalk
    \/ EndWalk

SpecWalk == InitWalk /\ [][NextWalk]_vars

\* the call runs on: a turn of the main loop that can be made is made
SpecWalkRuns == SpecWalk /\ WF_vars(NextWalk)

-----------------------------------------------------------------------------
(* The error formatter *)

\* the longest line shown whole
MAX_LENGTH == 75

\* Math.round((MAX_LENGTH - 1) / 2): a half is rounded up
paddingSize == MAX_LENGTH \div 2

\* generateErrorMessage(line, index, ...): the excerpt of the line and the
\* number of spaces before the caret
generateErrorMessage(ln, index) ==
    LET minNeedsEllipsis == ~(index - paddingSize < 0)
        maxNeedsEllipsis == ~(index + paddingSize + 1 > Len(ln) - 1)
        minExcerptIndex == IF minNeedsEllipsis THEN index - paddingSize ELSE 0
        maxExcerptIndex == IF maxNeedsEllipsis THEN index + paddingSize + 1 ELSE Len(ln) - 1
    IN
    IF Len(ln) > MAX_LENGTH
    THEN [excerpt |-> (IF minNeedsEllipsis THEN <<".", ".", ".", " ">> ELSE <<>>)
                        \o slice(ln, minExcerptIndex, maxExcerptIndex)
                        \o (IF maxNeedsEllipsis THEN <<" ", ".", ".", ".">> ELSE <<>>),
          newIndex |-> index - minExcerptIndex + (IF minNeedsEllipsis THEN 4 ELSE 0)]
    ELSE [excerpt |-> ln, newIndex |-> index]

\* string.split("\n"): the lines, each from its start to the line feed
\* that ends it or to the end of the string
split(s) ==
    LET feeds == {k \in 1..Len(s) : s[k] = "\n"}
        starts == {1} \cup {k + 1 : k \in feeds}
        start(j) == CHOOSE a \in starts : Cardinality({x \in starts : x < a}) = j - 1
        stop(a) == IF \E k \in feeds : k >= a
                   THEN CHOOSE k \in feeds : k >= a /\ \A m \in feeds : m >= a => k <= m
                   ELSE Len(s) + 1
    IN [j \in 1..Cardinality(starts) |-> SubSeq(s, start(j), stop(start(j)) - 1)]

\* the for loop of getErrorInStringMessage over the lines, at lineIndex (0-based)
RECURSIVE locate(_, _, _, _)
locate(lines, index, lineIndex, totalLength) ==
    IF lineIndex >= Len(lines)
    THEN [lineIndex |-> Len(lines) - 1, indexInLine |-> Len(lines[Len(lines)])]
    ELSE IF totalLength + Len(lines[lineIndex + 1]) + 1 > index
    THEN [lineIndex |-> lineIndex, indexInLine |-> index - totalLength]
    ELSE locate(lines, index, lineIndex + 1, totalLength + Len(lines[lineIndex + 1]) + 1)

\* getErrorInStringMessage(string, index, ...): the line the error is in and
\* the index of the error in that line, as handed to generateErrorMessage
getErrorInStringMessage(s, index) ==
    LET clamped == IF index < 0 THEN 0 ELSE IF index > Len(s) THEN Len(s) ELSE index
        lines == split(s)
        found == locate(lines, clamped, 0, 0)
    IN [line |-> lines[found.lineIndex + 1], index |-> found.indexInLine]

\* a line of n characters, the one at index m (0-based) unlike the others
Marked(n, m) == [k \in 1..n |-> IF k = m + 1 THEN "E" ELSE "x"]

\* the strings reported on: a long line, alone or after a short one
Reported ==
    UNION {{Marked(n, m) : m \in 0..(n - 1)} : n \in (MAX_LENGTH + 1)..MaxLineLength}

InitReport ==
    /\ string \in Reported \cup {<<"x", "x", "\n">> \o s : s \in Reported}
    /\ implicitMultiplication = FALSE
    /\ maxExpressionDepth = Infinity
    /\ tokens = <<>>
    /\ i = 0
    /\ stack = <<>>
    /\ id = 0
    /\ rootNode = Nil
    /\ err = NoError
    /\ currentIndex = 0
    /\ expectingTypename = FALSE
    /\ objects = <<>>
    /\ options = NoOptions
    /\ nodeStack = <<>>
    /\ nodeChildIndexStack = <<>>
    /\ calls = <<>>
    /\ pc = "message"
    /\ line = <<>>
    /\ errorIndex = 0
    /\ excerpt = <<>>
    /\ newIndex = 0

\* getErrorInStringMessage up to its call of generateErrorMessage, for an
\* error at any index from just before the string to just after it
GetErrorInStringMessage ==
    /\ pc = "message"
    /\ \E index \in (-1)..(Len(string) + 1) :
          /\ line' = getErrorInStringMessage(string, index).line
          /\ errorIndex' = getErrorInStringMessage(string, index).index
    /\ pc' = "generate"
    /\ UNCHANGED <<excerpt, newIndex, err, parseVars, scanVars, walkVars>>

\* generateErrorMessage
GenerateErrorMessage ==
    /\ pc = "generate"
    /\ excerpt' = generateErrorMessage(line, errorIndex).excerpt
    /\ newIndex' = generateErrorMessage(line, errorIndex).newIndex
    /\ pc' = "reported"
    /\ UNCHANGED <<line, errorIndex, err, parseVars, scanVars, walkVars>>

NextReport ==
    \/ GetErrorInStringMessage
    \/ GenerateErrorMessage

SpecReport == InitReport /\ [][NextReport]_vars

-----------------------------------------------------------------------------
(* simpleTokenizer as a state machine: one action per turn of the main loop *)

InitScan ==
    /\ string \in Runs(ScanLexemes, MaxScanLexemes)
    /\ implicitMultiplication = FALSE
    /\ maxExpressionDepth = Infinity
    /\ tokens = <<>>
    /\ i = 0
    /\ stack = <<>>
    /\ id = 0
    /\ rootNode = Nil
    /\ err = NoError
    /\ currentIndex = 0
    /\ expectingTypename = FALSE
    /\ objects = <<>>
    /\ options = NoOptions
    /\ nodeStack = <<>>
    /\ nodeChildIndexStack = <<>>
    /\ calls = <<>>
    /\ pc = "scan"
    /\ line = <<>>
    /\ errorIndex = 0
    /\ excerpt = <<>>
    /\ newIndex = 0

\* the turn of the main loop entered in the current state
Turn ==
    simpleTokenizerTurn(string, DEFAULT_MAX_TEMPLATE_DEPTH, currentIndex, tokens,
                        expectingTypename)

\* a turn that pushes a token and continues the loop
ScanToken ==
    /\ pc = "scan"
    /\ \E t \in {Turn} :
          /\ t.kind = "continue"
          /\ tokens' = t.tokens
          /\ currentIndex' = t.currentIndex
          /\ expectingTypename' = t.expectingTypename
    /\ UNCHANGED <<pc, err, string, implicitMultiplication, maxExpressionDepth,
                   i, stack, id, rootNode, walkVars, reportVars>>

\* a turn that throws
ScanThrow ==
    /\ pc = "scan"
    /\ \E t \in {Turn} :
          /\ t.kind = "throw"
          /\ currentIndex' = t.currentIndex
          /\ err' = t.err
    /\ pc' = "error"
    /\ UNCHANGED <<tokens, expectingTypename, string, implicitMultiplication,
                   maxExpressionDepth, i, stack, id, rootNode, walkVars, reportVars>>

\* the turn that finds the end of the string and leaves the loop
ScanBreak ==
    /\ pc = "scan"
    /\ \E t \in {Turn} :
          /\ t.kind = "break"
          /\ currentIndex' = t.currentIndex
    /\ pc' = "scanned"
    /\ UNCHANGED <<tokens, expectingTypename, err, string, implicitMultiplication,
                   maxExpressionDepth, i, stack, id, rootNode, walkVars, reportVars>>

NextScan ==
    \/ ScanToken
    \/ ScanThrow
    \/ ScanBreak

SpecScan == InitScan /\ [][NextScan]_vars

\* Weak fairness of NextScan, WF_vars(NextScan), written out: the loop runs
\* without interruption, so a turn that can be taken is taken.  A turn can
\* be taken exactly when pc = "scan" (Scanning below), since every turn ends
\* in a break, a continue or a throw.
ScanFairness == <>[](pc = "scan") => []<><<NextScan>>_vars

SpecScanRuns == SpecScan /\ ScanFairness

-----------------------------------------------------------------------------
(* Properties *)

\* the nodes reachable from node through children, node included
RECURSIVE nodesOf(_)
nodesOf(node) ==
    {node} \cup UNION {nodesOf(node.children[k]) : k \in 1..Len(node.children)}

\* the nodes strictly below node
below(node) == UNION {nodesOf(node.children[k]) : k \in 1..Len(node.children)}

\* parseString has returned a tree
Returned == pc = "done" /\ rootNode # Nil

TokenKinds ==
    {"comma", "paren", "function_token", "operator_token", "property_access", "colon",
     "typename", "arrow_function_token", "type_annotation"}

\* C1: after a successful parse no node reachable through children from the
\* returned root has a token kind (comma, paren, function_token,
\* operator_token, property_access, colon, typename, arrow_function_token,
\* type_annotation).
C1_NoTokenKinds ==
    Returned => \A n \in nodesOf(rootNode) : n.type \notin TokenKinds

\* a parse that returned a tree with a function call and its argument in it
C1_Witness ==
    /\ Returned
    /\ \E n \in nodesOf(rootNode) : n.type = "function" /\ Len(n.children) > 0

\* C2: for every node of every successful parse of a source s,
\* 0 <= index <= endIndex < len(s).
C2_IndexWithinSource ==
    Returned => \A n \in nodesOf(rootNode) :
                    0 <= n.index /\ n.index <= n.endIndex /\ n.endIndex < Len(string)

\* C3: after the index-completion pass every node of the returned tree
\* carries both a defined index and a defined endIndex.
C3_IndicesDefined ==
    Returned => \A n \in nodesOf(rootNode) : n.index # Undef /\ n.endIndex # Undef

\* C4: for every node of a successful parse, index is the position of the
\* first non-whitespace character of the source text its subtree covers: it
\* is not a whitespace position, and no node below starts before it; a binary
\* operator node starts where its left operand starts.
C4_IndexIsSubtreeStart ==
    Returned => \A n \in nodesOf(rootNode) :
                    /\ ~isWhitespace(charAt(string, n.index))
                    /\ \A d \in below(n) : n.index <= d.index
                    /\ (n.type = "operator" /\ Len(n.children) = 2)
                          => n.index = n.children[1].index

isChain(n) == n.type = "operator" /\ n.txt = <<"c", "c", "h", "a", "i", "n">>

isChainString(n) == n.type = "string" /\ n.src = "operator"

\* C5: in every successful parse each operator node other than cchain has
\* exactly 1 or 2 children, and each cchain node has an odd number of
\* children, at least 5, alternating operand / string (src operator),
\* starting and ending with an operand.
C5_OperatorArity ==
    Returned => \A n \in nodesOf(rootNode) :
                    n.type = "operator" =>
                        IF isChain(n)
                        THEN /\ Len(n.children) >= 5
                             /\ Len(n.children) % 2 = 1
                             /\ \A k \in 1..Len(n.children) :
                                    (k % 2 = 0) <=> isChainString(n.children[k])
                        ELSE Len(n.children) \in {1, 2}

\* a returned tree with a cchain node over three operands
C5_Witness ==
    /\ Returned
    /\ \E n \in nodesOf(rootNode) : isChain(n) /\ Len(n.children) = 5

\* C6: for a source that yields no tokens (empty or whitespace only)
\* parseString returns null instead of raising, whatever
\* implicitMultiplication is.
C6_NoTokensGiveNull ==
    (\A k \in 1..Len(string) : isWhitespace(string[k])) =>
        /\ pc # "error"
        /\ pc = "done" => rootNode = Nil

\* the positions (1-based) of the paren tokens, of the openers, of the closers
Parens == {k \in 1..Len(tokens) : tokens[k].type = "paren"}
Openers == {k \in Parens : tokens[k].opening = "true"}
Closers == {k \in Parens : tokens[k].opening = "false"}

\* checkParensBalanced has just returned
Balanced == pc = "insert"

closes(open, close) ==
    \/ open = "(" /\ close = ")"
    \/ open = "[" /\ close = "]"
    \/ open = "|" /\ close = "|"

\* C7: whenever checkParensBalanced returns without error, every paren token
\* has a pairId and an opening flag, each pairId is carried by exactly one
\* opener and exactly one later closer of the same bracket kind, and no two
\* pairs interleave.
C7_PairsNested ==
    Balanced =>
        /\ Parens = Openers \cup Closers
        /\ \A k \in Parens : tokens[k].pID >= 1
        /\ \A k \in Openers :
              /\ \A m \in Openers : tokens[m].pID = tokens[k].pID => m = k
              /\ \E m \in Closers :
                    /\ tokens[m].pID = tokens[k].pID
                    /\ m > k
                    /\ closes(tokens[k].paren, tokens[m].paren)
        /\ \A m \in Closers :
              /\ \A n \in Closers : tokens[n].pID = tokens[m].pID => n = m
              /\ \E k \in Openers : tokens[k].pID = tokens[m].pID
        /\ \A a, c \in Openers : \A b, d \in Closers :
              (tokens[a].pID = tokens[b].pID /\ tokens[c].pID = tokens[d].pID
                  /\ a < c /\ c < b) => d < b

\* a balanced token list with a pair of one kind inside a pair of another
C7_Witness ==
    /\ Balanced
    /\ \E a, c \in Openers : \E b \in Closers :
          /\ tokens[a].pID = tokens[b].pID
          /\ a < c /\ c < b
          /\ tokens[a].paren # tokens[c].paren

\* the balancer is about to look at a token with the given paren characters
Meets(chars) ==
    /\ pc = "balance"
    /\ i < Len(tokens)
    /\ tokens[i + 1].type = "paren"
    /\ tokens[i + 1].paren \in chars

topIsBar == Len(stack) > 0 /\ stack[Len(stack)] = 3

\* the previous token is an operator_token or an opening bar, or there is none
opensByPrevious ==
    \/ i = 0
    \/ tokens[i].type = "operator_token"
    \/ (tokens[i].type = "paren" /\ tokens[i].paren = "|" /\ tokens[i].opening = "true")

BarsInBars == <<"|", "|", "x", "|", "|">>

BarsAfterStar == <<"|", "3", "*", "|", "x", "|", "|">>

flags(toks) == [k \in 1..Len(toks) |-> toks[k].opening]

\* C8: a vertical bar is classified as opening when the previous token is an
\* operator_token or an opening bar or there is no previous token; otherwise
\* it is closing exactly when the top of the bracket stack is an open bar, and
\* is then paired with that bar.  So ||x|| gives two openers followed by two
\* closers, and |3*|x|| balances.
C8_BarClassification ==
    /\ [][Meets({"|"}) =>
            LET closing == ~opensByPrevious /\ topIsBar IN
            /\ tokens'[i + 1].opening = (IF closing THEN "false" ELSE "true")
            /\ closing => tokens'[i + 1].pID = stack[Len(stack) - 1]
            /\ ~closing => tokens'[i + 1].pID \notin {tokens[k].pID : k \in 1..Len(tokens)}]_vars
    /\ [](string = BarsInBars /\ Balanced
            => flags(tokens) = <<"true", "true", "undefined", "false", "false">>)
    /\ [](string = BarsAfterStar => pc # "error")

\* the balancer has gone through |3*|x||, closing a bar under an open bar
C8_Witness ==
    /\ string = BarsAfterStar
    /\ Balanced
    /\ Cardinality(Closers) = 2

\* C9: the balancer raises a ParserError, and assigns no pairId to the closer,
\* whenever a ')' or ']' is met while the stack is empty or while the top of
\* the stack is a different bracket kind (an open vertical bar included).
C9_CloserRejected ==
    [][(/\ Meets({")", "]"})
        /\ \/ Len(stack) = 0
           \/ stack[Len(stack)] # (IF tokens[i + 1].paren = ")" THEN 1 ELSE 2))
       => /\ pc' = "error"
          /\ err'.type = "ParserError"
          /\ err'.index = tokens[i + 1].index
          /\ tokens' = tokens
          /\ tokens[i + 1].pID = -1]_vars

\* a ')' met under an open bar, and rejected
C9_Witness ==
    /\ pc = "error"
    /\ i < Len(tokens)
    /\ tokens[i + 1].paren = ")"
    /\ \E k \in Openers : tokens[k].paren = "|"
    /\ err.type = "ParserError"

\* the openers no closer carries the pair id of
Unclosed == {k \in Openers : \A m \in Closers : tokens[m].pID # tokens[k].pID}

\* the balancer raised its end-of-input error
EndOfInputError ==
    /\ pc = "error"
    /\ i = Len(tokens)
    /\ err.message = "Unbalanced parentheses/brackets/vertical bars"

\* C10 as stated: when the token stream ends with several brackets still
\* open, the balancer's error references the outermost unclosed bracket.
C10_OutermostUnclosed ==
    (EndOfInputError /\ Cardinality(Unclosed) >= 2) =>
        \E k \in Unclosed : /\ \A m \in Unclosed : k <= m
                            /\ err.note = tokens[k].index

\* C10 as the code has it: when the token stream ends with brackets still
\* open, the error is placed at the end of the source and references the
\* innermost unclosed bracket (the last one opened that is still open).
C10_InnermostUnclosed ==
    EndOfInputError =>
        /\ err.index = Len(string)
        /\ \E k \in Unclosed : /\ \A m \in Unclosed : k >= m
                               /\ err.note = tokens[k].index

\* the end-of-input error with at least two brackets open
C10_Witness == EndOfInputError /\ Cardinality(Unclosed) >= 2

\* the inserter runs, implicitMultiplication being on
Inserting == pc = "insert" /\ implicitMultiplication

\* a token as it was before the final list was numbered
unnumbered(t) == [t EXCEPT !.tid = 0]

\* the tokens of toks that the scanner made, in order
originals(toks) ==
    LET scanned(t) == t # Nil /\ ~t.implicit IN
    LET kept == SelectSeq(toks, scanned) IN
    [k \in 1..Len(kept) |-> unnumbered(kept[k])]

\* A is a number, a variable, a ')', a ']' or a closing bar
CanPrecedeProduct(A) ==
    \/ A.type \in {"number", "variable"}
    \/ A.type = "paren" /\ A.paren \in {")", "]"}
    \/ A.type = "paren" /\ A.paren = "|" /\ A.opening = "false"

\* B is a '(', an opening bar, a number, a variable or a function_token
CanFollowProduct(B) ==
    \/ B.type \in {"number", "variable", "function_token"}
    \/ B.type = "paren" /\ B.paren = "("
    \/ B.type = "paren" /\ B.paren = "|" /\ B.opening = "true"

\* C11: with implicitMultiplication on, a synthetic operator_token with op
\* '*', implicit true and index B.index - 1 is inserted between adjacent
\* tokens A B exactly when A is a number, a variable, a ')', a ']' or a
\* closing bar and B is a '(', an opening bar, a number, a variable or a
\* function_token; no token is inserted for any other pair (not before '['),
\* and no original token is dropped or reordered.
C11_ImplicitTokens ==
    [][Inserting =>
        /\ originals(tokens') = tokens
        /\ \A k \in 1..Len(tokens') :
              tokens'[k].implicit =>
                  /\ 1 < k /\ k < Len(tokens')
                  /\ ~tokens'[k - 1].implicit /\ ~tokens'[k + 1].implicit
                  /\ CanPrecedeProduct(tokens'[k - 1])
                  /\ CanFollowProduct(tokens'[k + 1])
                  /\ unnumbered(tokens'[k]) =
                        [Token("operator_token", tokens'[k + 1].index - 1, <<"*">>)
                            EXCEPT !.implicit = TRUE]
        /\ \A k \in 1..(Len(tokens') - 1) :
              (/\ ~tokens'[k].implicit
               /\ ~tokens'[k + 1].implicit
               /\ CanPrecedeProduct(tokens'[k]))
                  => ~CanFollowProduct(tokens'[k + 1])]_vars

\* the inserter has put a * between a closing bar and a variable
C11_Witness ==
    /\ pc = "step2"
    /\ \E k \in 2..(Len(tokens) - 1) :
          /\ tokens[k].implicit
          /\ tokens[k - 1].paren = "|"
          /\ tokens[k + 1].type = "variable"

\* the source with a '*' written before the token each implicit token of
\* toks stands before, the tokens taken from the last one to the first
RECURSIVE explicitText(_, _, _)
explicitText(s, toks, k) ==
    IF k = 0 THEN s
    ELSE explicitText(IF toks[k].implicit
                      THEN SubSeq(s, 1, toks[k].index + 1) \o <<"*">>
                               \o SubSeq(s, toks[k].index + 2, Len(s))
                      ELSE s,
                      toks, k - 1)

\* a tree without the positions in the source and the token numbers
RECURSIVE unplaced(_)
unplaced(node) ==
    [node EXCEPT !.index = 0, !.endIndex = 0, !.tid = 0, !.arrowIndex = 0, !.parenInfo = <<>>,
                 !.children = [k \in 1..Len(node.children) |-> unplaced(node.children[k])]]

\* a tree without the implicit flags either
RECURSIVE unflagged(_)
unflagged(node) ==
    [node EXCEPT !.implicit = FALSE,
                 !.children = [k \in 1..Len(node.children) |-> unflagged(node.children[k])]]

\* the parse, implicitMultiplication off, of the source with its products
\* written out
ExplicitParse == parseString(explicitText(string, tokens, Len(tokens)), FALSE)

\* C12 as stated: for every input accepted with implicitMultiplication on,
\* writing an explicit '*' at each place the inserter would add one and
\* parsing that text with implicitMultiplication off yields the same tree
\* (the positions in the text apart).
C12_SameTree ==
    (Returned /\ implicitMultiplication) =>
        /\ ok(ExplicitParse)
        /\ unplaced(ExplicitParse.value) = unplaced(rootNode)

\* C12 as the code has it: the two trees are the same but for the positions
\* and for the implicit flag, which is true on the product nodes the inserter
\* made and false on the ones written out.
C12_SameTreeButImplicit ==
    (Returned /\ implicitMultiplication) =>
        /\ ok(ExplicitParse)
        /\ unflagged(unplaced(ExplicitParse.value)) = unflagged(unplaced(rootNode))

\* a tree returned with an implicit product in it
C12_Witness ==
    /\ Returned
    /\ implicitMultiplication
    /\ \E n \in nodesOf(rootNode) : n.type = "operator" /\ n.implicit

\* parseString has returned or raised
Finished == pc \in {"done", "error"}

\* a tree as a term: the op, name or value of each node over its children
RECURSIVE term(_)
term(node) ==
    [head |-> node.txt,
     args |-> [k \in 1..Len(node.children) |-> term(node.children[k])]]

leaf(name) == [head |-> <<name>>, args |-> <<>>]
apply(op, args) == [head |-> <<op>>, args |-> args]

\* the source parses to a root over the one term given
ParsesTo(source, expected) ==
    (string = source /\ Finished) =>
        /\ Returned
        /\ Len(rootNode.children) = 1
        /\ rootNode.children[1].type = "operator"
        /\ term(rootNode.children[1]) = expected

isPower(n) == n.type = "operator" /\ n.txt = <<"^">>
isSign(n) == n.type = "operator" /\ n.txt \in {<<"+">>, <<"-">>} /\ Len(n.children) = 1

\* C13: the shared right-to-left pass for unary +/- and binary ^ makes ^
\* right-associative and makes a prefix sign apply to the whole power on its
\* right: -x^y is unary '-' over the operator x^y, x^y^z is x^(y^z), x^-y is
\* '^' over x and unary -y; without parentheses no power has a power or a
\* signed operand on its left.
C13_PowersAndSigns ==
    /\ ParsesTo(<<"-", "x", "^", "y">>,
                apply("-", <<apply("^", <<leaf("x"), leaf("y")>>)>>))
    /\ ParsesTo(<<"x", "^", "y", "^", "z">>,
                apply("^", <<leaf("x"), apply("^", <<leaf("y"), leaf("z")>>)>>))
    /\ ParsesTo(<<"x", "^", "-", "y">>,
                apply("^", <<leaf("x"), apply("-", <<leaf("y")>>)>>))
    /\ Returned =>
          \A n \in nodesOf(rootNode) :
              isPower(n) => /\ Len(n.children) = 2
                            /\ ~isPower(n.children[1])
                            /\ ~isSign(n.children[1])

\* a returned tree with a sign over a power
C13_Witness ==
    /\ Returned
    /\ \E n \in nodesOf(rootNode) : isSign(n) /\ isPower(n.children[1])

\* a binary comparison node
isComparison(n) ==
    /\ n.type = "operator"
    /\ Len(n.children) = 2
    /\ n.txt \in {<<"=", "=">>, <<"!", "=">>, <<"<">>, <<">">>, <<"<", "=">>, <<">", "=">>}

\* C14: a child list e1 op1 e2 op2 e3 ... with two or more comparison
\* operators is collapsed into a single cchain operator and never into nested
\* binary comparisons such as (e1 op1 e2) op2 e3, whatever the operands are,
\* operands that are themselves collapsed operators included: no binary
\* comparison of a returned tree has a binary comparison for an operand.
C14_NoNestedComparisons ==
    Returned =>
        \A n \in nodesOf(rootNode) :
            isComparison(n) => \A k \in 1..2 : ~isComparison(n.children[k])

\* the position of the closer of the opener at position a of tokens
closerOf(a) ==
    CHOOSE b \in (a + 1)..Len(tokens) :
        tokens[b].type = "paren" /\ tokens[b].pID = tokens[a].pID

\* position c lies inside brackets opened after position a
nestedAfter(a, c) ==
    \E o \in (a + 1)..(c - 1) :
        tokens[o].type = "paren" /\ tokens[o].opening = "true" /\ closerOf(o) > c

\* the positions where the arguments start between the '(' at position a and
\* its ')': after the '(' and after each comma that is not nested deeper
argumentStarts(a) ==
    IF closerOf(a) = a + 1 THEN {}
    ELSE {a + 1} \cup {c + 1 : c \in {c \in (a + 1)..(closerOf(a) - 1) :
                                        tokens[c].type = "comma" /\ ~nestedAfter(a, c)}}

\* the calls of the tree that were written with a name and parentheses
writtenCalls(root) ==
    {n \in nodesOf(root) : n.type = "function" /\ ~n.parenInfo[1].verticalBar}

\* the position of the function_token the call n was made from
nameOfCall(n) ==
    CHOOSE p \in 1..Len(tokens) :
        tokens[p].type = "function_token" /\ tokens[p].index = n.index

CommaErrors ==
    {"Comma at start of expression", "Comma at start of parenthesized subexpression",
     "Consecutive commas (empty subexpression)", "Comma at end of expression",
     "Comma at end of parenthesized subexpression"}

isOpener(t) == t.type = "paren" /\ t.opening = "true"
isCloser(t) == t.type = "paren" /\ t.opening = "false"

\* the token at position k is a comma that starts or ends an expression or
\* a parenthesized subexpression, or follows another comma
MisplacedComma(k) ==
    /\ tokens[k].type = "comma"
    /\ \/ k = 1
       \/ k = Len(tokens)
       \/ k > 1 /\ (isOpener(tokens[k - 1]) \/ tokens[k - 1].type = "comma")
       \/ k < Len(tokens) /\ isCloser(tokens[k + 1])

\* C16: the early sanity scan raises a comma error exactly when a comma is
\* the first token of an expression or parenthesized subexpression, the last
\* token of one, or immediately follows another comma: it raises some error
\* when there is such a comma, and a comma error only when there is one (a
\* comma followed by an opening paren or bar is not rejected).
C16_CommaErrors ==
    [][pc = "step2" =>
        /\ (\E k \in 1..Len(tokens) : MisplacedComma(k)) => pc' = "error"
        /\ (pc' = "error" /\ err'.message \in CommaErrors)
              => \E k \in 1..Len(tokens) : MisplacedComma(k)]_vars

EndingOperatorErrors ==
    {"Operator immediately followed by closing parenthesis",
     "Trailing operator at end of expression",
     "Trailing operator at end of parenthesized subexpression",
     "Trailing operator at end of subexpression"}

\* the token at position k is an operator that ends the expression or a
\* subexpression
EndingOperator(k) ==
    /\ tokens[k].type = "operator_token"
    /\ \/ k = Len(tokens)
       \/ k < Len(tokens) /\ (isCloser(tokens[k + 1]) \/ tokens[k + 1].type = "comma")

\* C17: the early sanity scan rejects an operator that ends an expression
\* or a parenthesized subexpression only when that operator is not a postfix
\* operator: a postfix '!' or '!!' immediately before a closing paren or bar,
\* as in (x!), is accepted.
C17_PostfixMayEnd ==
    [][(pc = "step2" /\ pc' = "error" /\ err'.message \in EndingOperatorErrors)
          => \E k \in 1..Len(tokens) :
                 /\ EndingOperator(k)
                 /\ ~couldBePostfixOp(tokens[k].txt)
                 /\ err'.index = tokens[k].index]_vars

\* the first n characters of v match [0-9]*\.?[0-9]+
MatchesMantissa(v, n) ==
    /\ n >= 1
    /\ v[n] \in Digits
    /\ \A k \in 1..n : v[k] \in Digits \cup {"."}
    /\ Cardinality({k \in 1..n : v[k] = "."}) <= 1

\* the characters of v after the first n match [eE][-+]?[0-9]+
MatchesExponent(v, n) ==
    /\ Len(v) >= n + 2
    /\ v[n + 1] \in {"e", "E"}
    /\ v[Len(v)] \in Digits
    /\ \A k \in (n + 2)..Len(v) : v[k] \in Digits \/ (k = n + 2 /\ v[k] \in {"-", "+"})

\* v matches [0-9]*\.?[0-9]+([eE][-+]?[0-9]+)? in full
MatchesNumber(v) ==
    \E n \in 1..Len(v) :
        MatchesMantissa(v, n) /\ (n = Len(v) \/ MatchesExponent(v, n))

\* C18: every number token emitted by the scanner has a value that matches
\* [0-9]*\.?[0-9]+([eE][-+]?[0-9]+)? in full: a trailing '.', a trailing
\* 'e'/'E' or a trailing sign after the exponent marker is never part of a
\* number token.
C18_NumberValues ==
    \A k \in 1..Len(tokens) :
        (tokens[k] # Nil /\ tokens[k].type = "number") => MatchesNumber(tokens[k].txt)

WordOperators == {<<"a", "n", "d">>, <<"o", "r">>}

isOperand(t) == t.type \in {"variable", "number"}

\* the token at position k was scanned from the word 'and' or 'or', stands
\* between two operands and is followed by whitespace
WordBetweenOperands(k) ==
    /\ 1 < k /\ k < Len(tokens)
    /\ tokens[k].txt \in WordOperators
    /\ tokens[k].type \in {"variable", "operator_token"}
    /\ isWhitespace(charAt(string, tokens[k].index + Len(tokens[k].txt)))
    /\ isOperand(tokens[k - 1]) /\ tokens[k - 1].txt \notin WordOperators
    /\ isOperand(tokens[k + 1]) /\ tokens[k + 1].txt \notin WordOperators

\* C19: when the word 'and' or 'or' stands between two operands and is
\* followed by whitespace, the scanner emits an operator_token with that op
\* (not a variable), and the tree builder collapses it into a binary operator
\* node over the two operands, as for x and x.
C19_WordOperators ==
    /\ pc = "insert" =>
          \A k \in 1..Len(tokens) :
              WordBetweenOperands(k) => tokens[k].type = "operator_token"
    /\ (string = <<"x", " ", "a", "n", "d", " ", "x">> /\ Finished) =>
          /\ Returned
          /\ Len(rootNode.children) = 1
          /\ term(rootNode.children[1]) =
                [head |-> <<"a", "n", "d">>, args |-> <<leaf("x"), leaf("x")>>]

\* the name x with the well-formed specialization ::<x> written after it
TemplatedName == <<"x", ":", ":", "<", "x", ">">>

\* simpleTokenizer has returned or raised
Scanned == pc # "tokenize"

\* C20: a name followed by a well-formed template specialization ::<T1, ...>
\* is accepted by the scanner and emitted as one token whose name includes
\* the template text: a function_token when '(' follows, otherwise a variable
\* (or a typename after a colon).
C20_TemplatedNames ==
    /\ (Scanned /\ string = TemplatedName) =>
          /\ Len(tokens) = 1
          /\ tokens[1].type = "variable"
          /\ tokens[1].txt = TemplatedName
    /\ (Scanned /\ string = TemplatedName \o <<"(", "x", ")">>) =>
          /\ Len(tokens) = 4
          /\ tokens[1].type = "function_token"
          /\ tokens[1].txt = TemplatedName
    /\ (Scanned /\ string = <<"x", ":">> \o TemplatedName) =>
          /\ Len(tokens) = 3
          /\ tokens[3].type = "typename"
          /\ tokens[3].txt = TemplatedName

-----------------------------------------------------------------------------
(* Arrow functions *)

isArrow(n) == n.type = "arrow_function"

\* where the parameters of an arrow function start in the source
parameterIndices(n) ==
    [k \in 1..Len(n.signature[1].vars) |-> n.signature[1].vars[k].index]

isNamespaced(tok) == tok.type = "variable" /\ \E k \in 1..Len(tok.txt) : tok.txt[k] = ":"

\* checkParensBalanced has returned: every bracket has its partner
Paired == Len(tokens) > 0 /\ i = Len(tokens) /\ Unclosed = {}

\* the source holds a parenthesized argument list, followed by an arrow or
\* by a return type and an arrow, with a namespaced variable as a parameter
NamespacedParameter ==
    \E a \in 1..Len(tokens) :
        /\ isOpener(tokens[a]) /\ tokens[a].paren = "("
        /\ a = 1 \/ tokens[a - 1].type # "function_token"
        /\ \/ at(tokens, closerOf(a)).type = "arrow_function_token"
           \/ /\ at(tokens, closerOf(a)).type = "colon"
              /\ at(tokens, closerOf(a) + 1).type = "typename"
              /\ at(tokens, closerOf(a) + 2).type = "arrow_function_token"
        /\ \E k \in (a + 1)..(closerOf(a) - 1) : isNamespaced(tokens[k]) /\ ~nestedAfter(a, k)

\* C22: every parameter of an arrow function must be one unqualified
\* identifier: a parse of a source whose parenthesized argument list holds a
\* namespaced variable (a::b, alone or as the left side of a type annotation)
\* ends with an error.
C22_NamespacedRejected == (Finished /\ Paired /\ NamespacedParameter) => pc = "error"

-----------------------------------------------------------------------------
(* Traversals *)

\* the objects above object k, found by going up at most n times
RECURSIVE above(_, _)
above(k, n) ==
    IF n = 0 THEN {}
    ELSE parentsOf(objects, k) \cup UNION {above(p, n - 1) : p \in parentsOf(objects, k)}

\* the structure is a finite tree: no object is referenced twice, and going
\* up from any object but the top one ends at the top one
IsTree ==
    /\ parentsOf(objects, Top) = {}
    /\ \A k \in 2..Len(objects) :
          /\ Cardinality(parentsOf(objects, k)) = 1
          /\ Top \in above(k, Len(objects))
          /\ k \notin above(k, Len(objects))
    /\ \A k \in 1..Len(objects) :
          \A a, b \in 1..Len(objects[k].children) :
              objects[k].children[a] = objects[k].children[b] => a = b

\* the calls of func made on object k, by their place in the order of calls
callsOn(k) == {c \in 1..Len(calls) : calls[c].node = k}

\* the place of the one call of func on object k
callOf(k) == CHOOSE c \in callsOn(k) : TRUE

parentOf(k) == CHOOSE p \in parentsOf(objects, k) : TRUE

Unlimited == ~options.onlyNodesWithChildren /\ options.depth = Infinity

\* C23: on a finite tree, a top node without children included, with
\* onlyNodesWithChildren off and no depth limit, the traversal ends without
\* an exception and has called func exactly once on every node (never twice
\* on the way): a parent before its children when childrenFirst is false, a
\* child before its parent when it is true, a node before the siblings on its
\* right unless rtl is set, and then after them.
C23_OncePerNode ==
    (IsTree /\ Unlimited) =>
        /\ pc # "error"
        /\ \A k \in 1..Len(objects) : Cardinality(callsOn(k)) <= 1
        /\ pc = "returned" =>
              /\ \A k \in 1..Len(objects) : Cardinality(callsOn(k)) = 1
              /\ \A k \in 2..Len(objects) :
                    (callOf(parentOf(k)) < callOf(k)) <=> ~options.childrenFirst
              /\ \A p \in 1..Len(objects) :
                    \A a, b \in 1..Len(objects[p].children) :
                        a < b => ((callOf(objects[p].children[a]) < callOf(objects[p].children[b]))
                                    <=> ~options.rtl)

\* how far object k of a tree lies below the top node
depthOf(k) == Cardinality(above(k, Len(objects)))

\* C24: in every call of func made by a traversal of a tree, in pre-order and
\* in post-order, the second argument is the parent of the node visited (null
\* for the top node only) and the third argument is the depth of the node
\* visited below the top node.
C24_ParentAndDepth ==
    IsTree =>
        \A c \in 1..Len(calls) :
            /\ calls[c].parent = IF calls[c].node = Top THEN 0 ELSE parentOf(calls[c].node)
            /\ calls[c].depth = depthOf(calls[c].node)

\* the structure holds a cycle: an object that lies above itself
HasCycle == \E k \in 1..Len(objects) : k \in above(k, Len(objects))

CyclicalErrorRaised == pc = "error" /\ err.type = "CyclicalError"

\* no object is on the node stack twice
NoRepeat == \A a, b \in 1..Len(nodeStack) : nodeStack[a] = nodeStack[b] => a = b

\* C25 as stated: with checkCycles set, no object is ever pushed on the node
\* stack while it is on it, and the traversal of a structure that holds a
\* cycle ends with CyclicalError, whatever the other arguments are.
C25_CyclesRaise ==
    /\ [](options.checkCycles => NoRepeat)
    /\ (options.checkCycles /\ HasCycle) ~> CyclicalErrorRaised

\* C25 with the depth left unlimited: with checkCycles set, no object is
\* ever pushed on the node stack while it is on it, and the traversal of a
\* structure that holds a cycle ends with CyclicalError when depth is
\* Infinity; a finite depth may end the descent before the cycle is met.
C25_CyclesRaiseUnlimited ==
    /\ [](options.checkCycles => NoRepeat)
    /\ (options.checkCycles /\ HasCycle /\ options.depth = Infinity) ~> CyclicalErrorRaised

\* CyclicalError raised two levels down, after calls of func
C25_Witness ==
    /\ CyclicalErrorRaised
    /\ options.checkCycles /\ HasCycle
    /\ Len(nodeStack) >= 2
    /\ Len(calls) > 0

-----------------------------------------------------------------------------
(* The depth limit *)

\* how far the deepest node of the tree lies below node
RECURSIVE height(_)
height(node) ==
    IF Len(node.children) = 0 THEN 0
    ELSE 1 + CHOOSE h \in {height(node.children[k]) : k \in 1..Len(node.children)} :
                 \A k \in 1..Len(node.children) : height(node.children[k]) <= h

\* C26: with a finite maxExpressionDepth d, the depth check that ends
\* parseString raises an error exactly when the tree has a node at a depth
\* greater than d below the root; a tree whose deepest node is at depth at
\* most d is returned.
C26_DepthLimit ==
    [][(pc = "step13" /\ maxExpressionDepth # Infinity) =>
          /\ (height(rootNode) > maxExpressionDepth => pc' = "error")
          /\ (height(rootNode) <= maxExpressionDepth => Returned')]_vars

-----------------------------------------------------------------------------
(* The error formatter *)

\* the error is at a character of a line longer than MAX_LENGTH, and that
\* character is the marked one
ErrorAtMark ==
    /\ pc = "reported"
    /\ Len(line) > MAX_LENGTH
    /\ errorIndex >= 0 /\ errorIndex < Len(line)
    /\ line[errorIndex + 1] = "E"

\* C27: for a line longer than 75 characters and an error index within it,
\* the last character of the line included, the excerpt holds the character
\* at the error index and the caret, written after newIndex spaces, stands
\* under that character.
C27_CaretUnderError ==
    ErrorAtMark => /\ newIndex < Len(excerpt)
                   /\ excerpt[newIndex + 1] = "E"

-----------------------------------------------------------------------------
(* Step 10: where the errors of subexpressions are located *)

EmptySubexpressionError ==
    /\ pc = "error"
    /\ err.type = "ParserError"
    /\ err.message = "Empty parenthesized subexpression"

CommaError ==
    /\ pc = "error"
    /\ err.type = "ParserError"
    /\ err.message \in {"Parenthesized subexpression, containing a comma,",
                        "Expression, containing a comma,"}

\* C28: the error of an empty parenthesized subexpression is located at the
\* character index of its opening bracket in the source, and the error of a
\* subexpression containing a comma at the character index of that comma;
\* the location is never a position in the list of tokens.
C28_ErrorAtCharacter ==
    /\ EmptySubexpressionError => charAt(string, err.index) = "("
    /\ CommaError => charAt(string, err.index) = ","

-----------------------------------------------------------------------------
(* Signs after an operand that is itself an operator node *)

\* an operator node '+' or '-' over one child
isUnarySign(node) ==
    /\ node.type = "operator"
    /\ node.txt \in {<<"+">>, <<"-">>}
    /\ Len(node.children) = 1

\* a complete operand: anything but a token still waiting to be processed
isComplete(node) == node.type \notin {"operator_token", "comma"}

\* the child lists that hold one expression: those of the root and of the
\* parenthesized subexpressions (the children of an operator node are its
\* operands, those of a function node its arguments)
isSequence(node) == node.type = "node"

\* C29: a '+' or '-' written between two complete operands becomes a binary
\* operator node over both, whatever the kind of the left operand (a
\* collapsed postfix operator, a property access): no successful parse
\* leaves two operands side by side in one child list with the sign attached
\* to the right one as a unary operator.
C29_SignsAreBinary ==
    pc = "done" =>
        \A node \in {n \in nodesOf(rootNode) : isSequence(n)} :
            \A k \in 1..(Len(node.children) - 1) :
                ~(isComplete(node.children[k]) /\ isUnarySign(node.children[k + 1]))

-----------------------------------------------------------------------------
(* The scanner's progress *)

\* pc = "scan" is the enabling condition of NextScan
Scanning == (pc = "scan") <=> ENABLED <<NextScan>>_vars

\* the tokens emitted so far stand at strictly increasing indices
IncreasingIndices ==
    \A a, b \in 1..Len(tokens) : a < b => tokens[a].index < tokens[b].index

\* a turn consumes at least one character, or raises an error, or is the
\* one that finds the end of the string and leaves the loop
Progress ==
    pc = "scan" =>
        \/ currentIndex' > currentIndex
        \/ pc' = "error" /\ err'.type = "ParserError"
        \/ pc' = "scanned" /\ currentIndex' >= Len(string)

\* C30: the main loop of the scanner always makes progress: every turn that
\* continues the loop consumes at least one character of the source
\* (currentIndex strictly increases), a turn that does not either raises an
\* error or leaves the loop at the end of the string; so the scan of any
\* string ends, and the tokens emitted have strictly increasing indices.
C30_ScannerProgress ==
    /\ [][Progress]_vars
    /\ [][pc = "scan" /\ pc' = "scan" => currentIndex' > currentIndex]_vars
    /\ <>(pc \in {"scanned", "error"})
    /\ [](IncreasingIndices /\ currentIndex <= Len(string))

C30_Witness ==
    /\ pc = "scanned"
    /\ Len(tokens) = 2
    /\ \E k \in 1..Len(string) : isWhitespace(string[k])
    /\ \E k \in 1..Len(tokens) : tokens[k].type = "arrow_function_token"

====
